---- MODULE Spec2Model ----
(***************************************************************************)
(* Control loops of the provider streamers of surf (OpenAI, Anthropic,     *)
(* Mistral, Grok, Qwen): one run of stream() as a state machine.  Every    *)
(* action runs the generator from one suspension point (await / yield) to  *)
(* a later one; the abort signal is read only at the start of an action    *)
(* and may be raised between any two actions.                              *)
(***************************************************************************)
EXTENDS Integers, Sequences, FiniteSets, TLC

\* ----- bounds of the model ------------------------------------------------
MaxBatch == 2          \* tool calls in one model turn
MaxModelCalls == 26    \* model round-trips explored in the OpenAI loop
MaxAnthropicCalls == 3 \* model round-trips explored in the Anthropic loop
MaxChunks == 3         \* chunks of one streamed Qwen completion
MaxQwenCalls == 2      \* model round-trips explored in the Qwen loop
CountSat == 27         \* counters of the run history saturate here

\* ----- program constants --------------------------------------------------
MistralMaxIterations == 20
GrokMaxIterations == 24

Providers == {"openai", "anthropic", "mistral", "grok", "qwen"}
Capped == {"mistral", "grok"}

\* tool calls a model turn can carry, by tool name; "unknown" is a call of the
\* computer tool whose action tag the dispatcher does not recognise, "other" is
\* a call of a tool the loop does not know
ToolNames == {"computer", "bash", "other", "unknown"}

\* IsComputer that takes a tool the loop does not know for the computer tool
IsComputerOrOther(t) == t \in {"computer", "unknown", "other"}

\* the call is a call of the computer tool
IsComputer(t) == t \in {"computer", "unknown"}

\* maxIterations one turn short of the cap
maxIterationsOneShort(p) ==
  IF p = "mistral" THEN MistralMaxIterations - 1 ELSE GrokMaxIterations - 1

maxIterations(p) == IF p = "mistral" THEN MistralMaxIterations ELSE GrokMaxIterations

\* the text-content event type of the capped loops
TextEvent(p) == IF p = "mistral" THEN "UPDATE" ELSE "REASONING"

VARIABLES
  provider,    \* which streamer runs
  pc,          \* position of the generator
  aborted,     \* signal.aborted
  iteration,   \* the iteration counter of the capped loops
  batch,       \* tool calls of the current model turn (toolCalls / toolUseBlocks / computerCalls)
  idx,         \* index of the next tool call of the batch
  text,        \* fullContent of the Qwen loop: "empty" or "text"
  chunks,      \* chunks read from the current Qwen completion
  out,         \* what the generator has yielded so far
  hist,        \* history of the run: calls made, failures, where abort was raised
  route,       \* the requests of the chat route: sandbox, signal, events streamed
  scaler,      \* a ResolutionScaler, the last action dispatched and the driver calls made
  shell,       \* one bash tool call: the command, what the desktop did, the tool result
  sse,         \* the event stream between the route and the client: frames, chunks, events parsed
  poll         \* one call of Sandbox.waitAndVerify: time elapsed, polls made, outcome

\* the state of one run of a streamer
runVars == <<provider, pc, aborted, iteration, batch, idx, text, chunks, out, hist>>

vars == <<provider, pc, aborted, iteration, batch, idx, text, chunks, out, hist, route, scaler, shell, sse, poll>>

Sat(n) == IF n >= CountSat THEN CountSat ELSE n
Sat2(n) == IF n >= 2 THEN 2 ELSE n
Sat3(n) == IF n >= 3 THEN 3 ELSE n

\* ----- the yielded event stream -------------------------------------------
\* n: events yielded (saturating at 3); done/error/text: per-type counts
\* (saturating at 2);
\* open: an ACTION is waiting for its ACTION_COMPLETED; unpaired: the pairing
\* ACTION -> ACTION_COMPLETED was broken; post: an event was yielded after a
\* DONE or ERROR; doneContent / errorContent: content of the last DONE / ERROR.
NoOut ==
  [n |-> 0, done |-> 0, error |-> 0, text |-> 0, open |-> FALSE,
   unpaired |-> FALSE, post |-> FALSE, doneContent |-> "none",
   errorContent |-> "none"]

Ev(t, c) == [type |-> t, content |-> c]

Emit(o, e) ==
  [n |-> Sat3(o.n + 1),
   done |-> IF e.type = "DONE" THEN Sat2(o.done + 1) ELSE o.done,
   error |-> IF e.type = "ERROR" THEN Sat2(o.error + 1) ELSE o.error,
   text |-> IF e.type \in {"UPDATE", "REASONING"} THEN Sat2(o.text + 1) ELSE o.text,
   open |-> IF e.type = "ACTION" THEN TRUE
            ELSE IF e.type = "ACTION_COMPLETED" THEN FALSE ELSE o.open,
   unpaired |-> o.unpaired
                \/ (e.type = "ACTION" /\ o.open)
                \/ (e.type = "ACTION_COMPLETED" /\ ~o.open),
   post |-> o.post \/ o.done + o.error > 0,
   doneContent |-> IF e.type = "DONE" THEN e.content ELSE o.doneContent,
   errorContent |-> IF e.type = "ERROR" THEN e.content ELSE o.errorContent]

RECURSIVE EmitAll(_, _)
EmitAll(o, es) == IF es = <<>> THEN o ELSE EmitAll(Emit(o, Head(es)), Tail(es))

\* ----- history of the run ---------------------------------------------------
\* modelCalls: model round-trips started; dispatched: actions handed to
\* executeAction / executeBashCommand (counted exactly while allOne holds,
\* saturating at 2 afterwards); driverCalls: calls on the desktop (saturating
\* at 2);
\* failed: a model or driver call threw; actionFailed: the driver threw while
\* it performed a dispatched action; afterFail: a model call or a dispatch
\* happened after a throw;
\* allOne: every turn so far returned exactly one call to a known tool;
\* bLen: tool calls the current turn returned; bKnown: all of them name a tool
\* the loop knows; bDispatched: their indices as dispatched, in order;
\* bActions / bCompleted: ACTION / ACTION_COMPLETED events of the batch;
\* abTurn, abK, abN, abPc, abKnown: where abort was raised: the turn (-1: not
\* raised, 0: before the first turn), the tool calls of the batch that had
\* completed, the size of the batch, the position of the generator, and bKnown;
\* endText: the text of the turn without tool calls that ended the run ("none":
\* no such turn); inFlight: a call on the desktop was started, not awaited, and
\* has not settled; overlap: a call on the desktop or a model call started
\* while a call on the desktop was in flight;
\* callerLast: the last turn the caller supplied, as it stands in the
\* conversation: "given", "image" (its content replaced by the text and a
\* screenshot) or "note" (replaced by a turn with a note added to the text);
\* bConv: the turns appended to the conversation since the latest model
\* request; toolResults: the tool results the Anthropic loop has collected for
\* its next user turn; sentOk: at every model request so far, the conversation
\* held the tool results of the calls dispatched before it (ResultsOk).
NoHist ==
  [modelCalls |-> 0, dispatched |-> 0, driverCalls |-> 0, failed |-> FALSE,
   actionFailed |-> FALSE,
   afterFail |-> FALSE, allOne |-> TRUE, bLen |-> 0, bKnown |-> TRUE,
   bDispatched |-> <<>>, bActions |-> 0, bCompleted |-> 0,
   abTurn |-> -1, abK |-> 0, abN |-> 0, abPc |-> "none", abKnown |-> TRUE,
   endText |-> "none", inFlight |-> FALSE, overlap |-> FALSE,
   callerLast |-> "given", bConv |-> <<>>, toolResults |-> <<>>, sentOk |-> TRUE]

Texts == {"empty", "blank", "text"}

Batches == UNION {[1..n -> ToolNames] : n \in 0..MaxBatch}

\* the tool names a loop dispatches: computer_use / computer and bash in the
\* capped loops, computer_use in Qwen, computer_call items in OpenAI, every
\* tool_use block in Anthropic
Known(p, t) ==
  CASE p \in Capped -> IsComputer(t) \/ t = "bash"
    [] p \in {"qwen", "openai"} -> IsComputer(t)
    [] OTHER -> TRUE

\* ----- the conversation ------------------------------------------------------
\* a turn: its role, the tool calls it carries (indices in the batch) and the
\* tool results it carries
Turn(role, calls, results) == [role |-> role, calls |-> calls, results |-> results]

\* a tool result: the call it answers, the tag of that call, and what it
\* carries: "after" (a screenshot taken after the action completed), "during"
\* (a screenshot taken while the action was still running) or "text" (no
\* screenshot)
Result(i, tag, shot) == [id |-> i, tag |-> tag, shot |-> shot]

\* messages.push(turn)
Push(h, t) == [h EXCEPT !.bConv = Append(h.bConv, t)]

\* the results in conversation c that answer call i, as <<turn, position>>
ResultsFor(c, i) ==
  {qj \in UNION {{<<q, j>> : j \in 1..Len(c[q].results)} : q \in 1..Len(c)} :
     c[qj[1]].results[qj[2]].id = i}

\* conversation c holds, for every dispatched call, exactly one tool result,
\* after the turn that carries the call, with a screenshot taken after the action
ResultsOk(c, dispatched) ==
  \A k \in 1..Len(dispatched) :
    LET i == dispatched[k]
        rs == ResultsFor(c, i)
    IN /\ Cardinality(rs) = 1
       /\ \A qj \in rs :
            /\ c[qj[1]].results[qj[2]].shot = "after"
            /\ \E q0 \in 1..(qj[1] - 1) :
                 \E j0 \in 1..Len(c[q0].calls) : c[q0].calls[j0] = i

\* a model round-trip starts: the conversation as it stands is passed on
ModelCall(h) ==
  [h EXCEPT !.modelCalls = Sat(h.modelCalls + 1),
            !.afterFail = h.afterFail \/ h.failed,
            !.overlap = h.overlap \/ h.inFlight,
            !.sentOk = h.sentOk /\ (h.failed \/ ResultsOk(h.bConv, h.bDispatched)),
            !.bConv = <<>>]

\* the turn returned batch b: a new batch starts
OneKnown(p, b) == Len(b) = 1 /\ Known(p, b[1])

NewBatch(h, p, b) ==
  [h EXCEPT !.allOne = h.allOne /\ OneKnown(p, b),
            !.dispatched = IF h.allOne /\ OneKnown(p, b) THEN h.dispatched
                           ELSE Sat2(h.dispatched),
            !.bLen = Len(b),
            !.bKnown = \A i \in 1..Len(b) : Known(p, b[i]),
            !.bDispatched = <<>>, !.bActions = 0, !.bCompleted = 0,
            !.toolResults = <<>>]

\* tool call i of the batch is handed to the dispatcher
Dispatch(h, i) ==
  [h EXCEPT !.dispatched = IF h.allOne THEN Sat(h.dispatched + 1)
                           ELSE Sat2(h.dispatched + 1),
            !.bDispatched = Append(h.bDispatched, i),
            !.afterFail = h.afterFail \/ h.failed]

\* k awaited calls on the desktop
Driver(h, k) ==
  [h EXCEPT !.driverCalls = Sat2(h.driverCalls + k),
            !.overlap = h.overlap \/ (h.inFlight /\ k > 0)]

\* a call on the desktop whose promise is dropped: the caller goes on at once
DriverNoAwait(h) == [Driver(h, 1) EXCEPT !.inFlight = TRUE]

Fail(h) == [h EXCEPT !.failed = TRUE]

\* a turn without tool calls returned text t
EndTurn(h, t) == [h EXCEPT !.endText = t]

FailAction(h) == [h EXCEPT !.failed = TRUE, !.actionFailed = TRUE]

Init ==
  /\ provider \in Providers
  /\ pc = "start"
  /\ aborted \in BOOLEAN
  /\ iteration = 0
  /\ batch = <<>>
  /\ idx = 1
  /\ text = "empty"
  /\ chunks = 0
  /\ out = NoOut
  /\ hist = [NoHist EXCEPT !.abTurn = IF aborted THEN 0 ELSE -1,
                           !.abPc = IF aborted THEN "start" ELSE "none"]
  /\ route = <<>>
  /\ scaler = <<>>
  /\ shell = <<>>
  /\ sse = <<>>
  /\ poll = <<>>

\* the caller raises the abort signal while the generator is suspended
Abort ==
  /\ pc # "done"
  /\ ~aborted
  /\ aborted' = TRUE
  /\ hist' = [hist EXCEPT !.abTurn = hist.modelCalls, !.abK = idx - 1,
                          !.abN = Len(batch), !.abPc = pc,
                          !.abKnown = hist.bKnown]
  /\ UNCHANGED <<route, scaler, shell, sse, poll, provider, pc, iteration, batch, idx, text, chunks, out>>

\* ----- the capped loops: MistralComputerStreamer / GrokComputerStreamer -----

\* stream() up to the loop: the initial screenshot
CappedStart ==
  /\ pc = "start"
  /\ provider \in Capped
  /\ \E shot \in {"ok", "throw"} :
       IF shot = "throw"
       THEN /\ out' = Emit(out, Ev("ERROR", "provider"))
            /\ pc' = "done"
            /\ hist' = Fail(Driver(hist, 1))
       ELSE \* the last turn is the user's: its content becomes text + screenshot
            /\ out' = out
            /\ pc' = "loop"
            /\ hist' = [Driver(hist, 1) EXCEPT !.callerLast = "image"]
  /\ UNCHANGED <<route, scaler, shell, sse, poll, provider, aborted, iteration, batch, idx, text, chunks>>

\* CappedExit with the two tests in one: a loop that ran out reports DONE
CappedExitStopsAtCap ==
  IF aborted \/ iteration >= maxIterations(provider)
  THEN out' = Emit(out, Ev("DONE", "stopped"))
  ELSE out' = out

\* CappedExit with the test of the counter first
CappedExitCapFirst ==
  IF iteration >= maxIterations(provider)
  THEN out' = Emit(out, Ev("ERROR", "limit"))
  ELSE IF aborted
       THEN out' = Emit(out, Ev("DONE", "stopped"))
       ELSE out' = out

\* the code after the while loop: the terminal event of a loop that ran out
CappedExit ==
  IF aborted
  THEN out' = Emit(out, Ev("DONE", "stopped"))
  ELSE IF iteration >= maxIterations(provider)
       THEN out' = Emit(out, Ev("ERROR", "limit"))
       ELSE out' = out

\* the while test and one model turn, up to the first tool call
CappedTurn ==
  /\ pc = "loop"
  /\ provider \in Capped
  /\ IF aborted \/ iteration >= maxIterations(provider)
     THEN /\ CappedExit
          /\ pc' = "done"
          /\ UNCHANGED <<iteration, batch, idx, text, hist>>
     ELSE /\ iteration' = iteration + 1
          /\ \/ \* generateText throws
                /\ out' = Emit(out, Ev("ERROR", "provider"))
                /\ pc' = "done"
                /\ hist' = Fail(ModelCall(hist))
                /\ UNCHANGED <<batch, idx, text>>
             \/ \E t \in Texts, b \in Batches :
                  /\ text' = text
                  /\ batch' = b
                  /\ idx' = 1
                  /\ hist' = LET h == NewBatch(ModelCall(hist), provider, b)
                                 g == IF t = "text"
                                      THEN Push(h, Turn("assistant", <<>>, <<>>))
                                      ELSE h
                             IN IF b = <<>> THEN EndTurn(g, t) ELSE g
                  /\ out' = EmitAll(out,
                       (IF t = "text" THEN <<Ev(TextEvent(provider), "text")>> ELSE <<>>)
                       \o (IF b = <<>>
                           THEN <<Ev("DONE", IF t = "empty" THEN "task_completed" ELSE t)>>
                           ELSE <<>>))
                  /\ pc' = IF b = <<>> THEN "done" ELSE "batch"
  /\ UNCHANGED <<route, scaler, shell, sse, poll, provider, aborted, chunks>>

\* where the for loop goes after tool call idx
AfterTool == IF idx + 1 > Len(batch) THEN "loop" ELSE "batch"

\* one pass of the for loop over toolCalls
CappedTool ==
  /\ pc = "batch"
  /\ provider \in Capped
  /\ idx <= Len(batch)
  /\ IF aborted
     THEN \* break, the while test fails, the code after the loop runs
          /\ CappedExit
          /\ pc' = "done"
          /\ UNCHANGED <<idx, hist>>
     ELSE CASE IsComputer(batch[idx]) ->
                 \E r \in {"result", "void", "throw", "shotthrow"} :
                   \* an unrecognised action tag makes no call on the desktop
                   \* and returns nothing
                   /\ batch[idx] = "unknown" => r \in {"void", "shotthrow"}
                   /\ LET h1 == Driver(Dispatch(hist, idx), 1)
                          h2 == Push([h1 EXCEPT !.bActions = h1.bActions + 1],
                                     Turn("assistant", <<idx>>, <<>>))
                      IN IF r \in {"throw", "shotthrow"}
                         THEN /\ out' = EmitAll(out, <<Ev("ACTION", "computer"),
                                                       Ev("ERROR", "provider")>>)
                              /\ pc' = "done"
                              /\ hist' = IF r = "throw" THEN FailAction(h2) ELSE Fail(h2)
                              /\ idx' = idx
                         ELSE /\ out' = EmitAll(out, <<Ev("ACTION", "computer"),
                                                       Ev("ACTION_COMPLETED", "none")>>)
                              /\ pc' = AfterTool
                              /\ hist' = Push([h2 EXCEPT !.bCompleted = h2.bCompleted + 1],
                                              Turn("tool", <<>>,
                                                   <<Result(idx, batch[idx], "after")>>))
                              /\ idx' = idx + 1
            [] batch[idx] = "bash" ->
                 \E run \in {"ok", "throw"}, shot \in {"ok", "throw"} :
                   LET h1 == Driver(Dispatch(hist, idx), 2)
                       h2 == Push([h1 EXCEPT !.bActions = h1.bActions + 1],
                                  Turn("assistant", <<idx>>, <<>>))
                       h3 == IF run = "throw" THEN FailAction(h2) ELSE h2
                   IN IF shot = "throw"
                      THEN /\ out' = EmitAll(out, <<Ev("ACTION", "bash"),
                                                    Ev("ERROR", "provider")>>)
                           /\ pc' = "done"
                           /\ hist' = Fail(h3)
                           /\ idx' = idx
                      ELSE /\ out' = EmitAll(out, <<Ev("ACTION", "bash"),
                                                    Ev("ACTION_COMPLETED", "none")>>)
                           /\ pc' = AfterTool
                           /\ hist' = Push([h3 EXCEPT !.bCompleted = h3.bCompleted + 1],
                                           Turn("tool", <<>>,
                                                <<Result(idx, "bash", "after")>>))
                           /\ idx' = idx + 1
            [] OTHER ->
                 /\ out' = out
                 /\ pc' = AfterTool
                 /\ hist' = hist
                 /\ idx' = idx + 1
  /\ UNCHANGED <<route, scaler, shell, sse, poll, provider, aborted, iteration, batch, text, chunks>>

\* ----- OpenAIComputerStreamer ------------------------------------------------

\* response.output: computer_call items and, possibly, a message item
OpenAIBatches == {b \in Batches : \A i \in 1..Len(b) : IsComputer(b[i])}

\* the catch block of OpenAIComputerStreamer.stream
OpenAICatch(o, how) ==
  IF how = "429"
  THEN EmitAll(o, <<Ev("ERROR", "quota"), Ev("DONE", "none")>>)
  ELSE Emit(o, Ev("ERROR", "generic"))

\* openai.responses.create: throws (429 or another error) or returns a response
OpenAICreate(h) ==
  /\ hist.modelCalls < MaxModelCalls
  /\ \/ \E how \in {"429", "throw"} :
          /\ out' = OpenAICatch(out, how)
          /\ pc' = "done"
          /\ hist' = Fail(ModelCall(h))
          /\ UNCHANGED <<batch, idx, text>>
     \/ \E t \in {"empty", "text"}, b \in OpenAIBatches :
          /\ out' = out
          /\ pc' = "loop"
          /\ batch' = b
          /\ idx' = 1
          /\ text' = t
          \* the response, which the next request names as previous_response_id
          /\ hist' = Push(NewBatch(ModelCall(h), provider, b),
                          Turn("assistant", [i \in 1..Len(b) |-> i], <<>>))

\* stream() up to the loop: the first request
OpenAIStart ==
  /\ pc = "start"
  /\ provider = "openai"
  /\ OpenAICreate(hist)
  /\ UNCHANGED <<route, scaler, shell, sse, poll, provider, aborted, iteration, chunks>>

\* top of the loop: the abort test, the end of the run, or the first computer call
OpenAIAct ==
  /\ pc = "loop"
  /\ provider = "openai"
  /\ IF aborted
     THEN /\ out' = Emit(out, Ev("DONE", "stopped"))
          /\ pc' = "done"
          /\ UNCHANGED <<idx, hist>>
     ELSE IF batch = <<>>
     THEN /\ out' = EmitAll(out, <<Ev("REASONING", text), Ev("DONE", "none")>>)
          /\ pc' = "done"
          /\ hist' = EndTurn(hist, text)
          /\ idx' = idx
     ELSE \E r \in {"ok", "throw"} :
            \* an unrecognised action type makes no call on the desktop
            /\ batch[1] = "unknown" => r = "ok"
            /\ LET pre == (IF text = "text" THEN <<Ev("REASONING", "text")>> ELSE <<>>)
                          \o <<Ev("ACTION", "computer")>>
                   h1 == Driver(Dispatch(hist, 1), 1)
                   h2 == [h1 EXCEPT !.bActions = h1.bActions + 1]
               IN IF r = "throw"
                  THEN /\ out' = OpenAICatch(EmitAll(out, pre), "throw")
                       /\ pc' = "done"
                       /\ hist' = FailAction(h2)
                       /\ idx' = idx
                  ELSE /\ out' = Emit(EmitAll(out, pre), Ev("ACTION_COMPLETED", "none"))
                       /\ pc' = "feed"
                       /\ hist' = [h2 EXCEPT !.bCompleted = h2.bCompleted + 1]
                       /\ idx' = 2
  /\ UNCHANGED <<route, scaler, shell, sse, poll, provider, aborted, iteration, batch, text, chunks>>

\* the screenshot after the action and the next request
OpenAIFeed ==
  /\ pc = "feed"
  /\ provider = "openai"
  /\ \/ \* takeScreenshot throws
        /\ hist.modelCalls < MaxModelCalls
        /\ out' = OpenAICatch(out, "throw")
        /\ pc' = "done"
        /\ hist' = Fail(Driver(hist, 1))
        /\ UNCHANGED <<batch, idx, text>>
     \/ OpenAICreate(Push(Driver(hist, 1),
                           Turn("tool", <<>>, <<Result(1, batch[1], "after")>>)))
  /\ UNCHANGED <<route, scaler, shell, sse, poll, provider, aborted, iteration, chunks>>

\* ----- AnthropicComputerStreamer ---------------------------------------------

\* top of the loop: the abort test and one model turn, up to the first tool use
AnthropicTurn ==
  /\ pc \in {"start", "loop"}
  /\ provider = "anthropic"
  /\ IF aborted
     THEN /\ out' = Emit(out, Ev("DONE", "stopped"))
          /\ pc' = "done"
          /\ UNCHANGED <<batch, idx, hist>>
     ELSE /\ hist.modelCalls < MaxAnthropicCalls
          /\ \/ \* anthropic.beta.messages.create throws
                /\ out' = Emit(out, Ev("ERROR", "generic"))
                /\ pc' = "done"
                /\ hist' = Fail(ModelCall(hist))
                /\ UNCHANGED <<batch, idx>>
             \/ \E thinking \in BOOLEAN, t \in {"empty", "text"}, b \in Batches :
                  /\ batch' = b
                  /\ idx' = 1
                  /\ hist' = LET h == NewBatch(ModelCall(hist), provider, b)
                             IN IF b = <<>> THEN EndTurn(h, t)
                                ELSE Push(h, Turn("assistant",
                                                  [i \in 1..Len(b) |-> i], <<>>))
                  /\ out' = EmitAll(out,
                       (IF thinking THEN <<Ev("REASONING", "thinking")>> ELSE <<>>)
                       \o (IF t = "text" THEN <<Ev("REASONING", "text")>> ELSE <<>>)
                       \o (IF b = <<>> THEN <<Ev("DONE", "none")>> ELSE <<>>))
                  /\ pc' = IF b = <<>> THEN "done" ELSE "batch"
  /\ UNCHANGED <<route, scaler, shell, sse, poll, provider, aborted, iteration, text, chunks>>

\* toolResults.push(toolResult) and, after the last tool use of the batch,
\* the user turn that carries the collected results
Collect(h, r, last) ==
  LET rs == Append(h.toolResults, r)
  IN IF last THEN Push([h EXCEPT !.toolResults = <<>>], Turn("user", <<>>, rs))
     ELSE [h EXCEPT !.toolResults = rs]

\* one pass of the for loop over toolUseBlocks: the action, then the screenshot
AnthropicTool ==
  /\ pc = "batch"
  /\ provider = "anthropic"
  /\ idx <= Len(batch)
  /\ \E r \in {"ok", "throw", "reject", "shotthrow"}, ran \in BOOLEAN, early \in BOOLEAN :
       \* a computer action can throw; the bash command runs when its input
       \* is the string "command" (ran), it is started and not awaited, so its
       \* rejection never reaches the generator, and it has settled or not
       \* (early) when the screenshot is asked for
       /\ r = "throw" => batch[idx] = "computer"
       /\ r = "reject" => ran
       /\ ran => batch[idx] = "bash"
       /\ early => ran /\ r # "reject"
       /\ LET h0 == Dispatch(hist, idx)
              h1 == IF ran
                    THEN (IF early THEN Driver(h0, 1) ELSE DriverNoAwait(h0))
                    ELSE h0
              h2 == [h1 EXCEPT !.bActions = h1.bActions + 1]
              h3 == IF r = "reject" THEN FailAction(h2) ELSE h2
          IN CASE r = "throw" ->
                    /\ out' = EmitAll(out, <<Ev("ACTION", batch[idx]),
                                             Ev("ERROR", "generic")>>)
                    /\ pc' = "done"
                    /\ hist' = FailAction(Driver(h2, 1))
                    /\ idx' = idx
               [] r = "shotthrow" ->
                    /\ out' = EmitAll(out, <<Ev("ACTION", batch[idx]),
                                             Ev("ACTION_COMPLETED", "none"),
                                             Ev("ERROR", "generic")>>)
                    /\ pc' = "done"
                    /\ hist' = Fail(Driver([h2 EXCEPT !.bCompleted = h2.bCompleted + 1], 1))
                    /\ idx' = idx
               [] OTHER ->
                    /\ out' = EmitAll(out, <<Ev("ACTION", batch[idx]),
                                             Ev("ACTION_COMPLETED", "none")>>)
                    /\ pc' = AfterTool
                    /\ hist' = Collect(Driver([h3 EXCEPT !.bCompleted = h3.bCompleted + 1], 1),
                                       Result(idx, batch[idx],
                                              IF ran /\ ~early THEN "during" ELSE "after"),
                                       idx + 1 > Len(batch))
                    /\ idx' = idx + 1
  /\ UNCHANGED <<route, scaler, shell, sse, poll, provider, aborted, iteration, batch, text, chunks>>

\* the bash command that executeAction started settles
CommandSettles ==
  /\ hist.inFlight
  /\ hist' = [hist EXCEPT !.inFlight = FALSE]
  /\ UNCHANGED <<route, scaler, shell, sse, poll, provider, pc, aborted, iteration, batch, idx, text, chunks, out>>

\* ----- QwenComputerStreamer --------------------------------------------------

\* stream() up to the loop: the initial screenshot
QwenStart ==
  /\ pc = "start"
  /\ provider = "qwen"
  /\ \E shot \in {"ok", "throw"} :
       IF shot = "throw"
       THEN /\ out' = Emit(out, Ev("ERROR", "stream"))
            /\ pc' = "done"
            /\ hist' = Fail(Driver(hist, 1))
       ELSE \* the last turn is the user's: it is replaced by a turn whose text
            \* has a note on the screenshot added
            /\ out' = out
            /\ pc' = "loop"
            /\ hist' = [Driver(hist, 1) EXCEPT !.callerLast = "note"]
  /\ UNCHANGED <<route, scaler, shell, sse, poll, provider, aborted, iteration, batch, idx, text, chunks>>

\* top of the while loop: the abort test and the request of a streamed completion
QwenTurn ==
  /\ pc = "loop"
  /\ provider = "qwen"
  /\ IF aborted
     THEN /\ out' = Emit(out, Ev("DONE", "stopped"))
          /\ pc' = "done"
          /\ UNCHANGED <<batch, text, chunks, hist>>
     ELSE /\ hist.modelCalls < MaxQwenCalls
          /\ \/ \* chat.completions.create throws
                /\ out' = Emit(out, Ev("ERROR", "stream"))
                /\ pc' = "done"
                /\ hist' = Fail(ModelCall(hist))
                /\ UNCHANGED <<batch, text, chunks>>
             \/ /\ out' = out
                /\ pc' = "chunks"
                /\ batch' = <<>>
                /\ text' = "empty"
                /\ chunks' = 0
                /\ hist' = NewBatch(ModelCall(hist), provider, <<>>)
  /\ UNCHANGED <<route, scaler, shell, sse, poll, provider, aborted, iteration, idx>>

\* what one chunk of the completion carries: nothing (no choices), a piece of
\* content, the start of one more tool call, or a finish reason.  A chunk that
\* carries several of these is handled by the loop as these chunks in a row.
QwenChunks ==
  {"nochoice", "content", "call:computer", "call:unknown", "call:other",
   "finish:tool_calls", "finish:stop", "finish:length"}

\* the tool call a chunk adds to toolCalls
QwenDelta(c) ==
  CASE c = "call:computer" -> <<"computer">>
    [] c = "call:unknown" -> <<"unknown">>
    [] c = "call:other" -> <<"other">>
    [] OTHER -> <<>>

\* the code after the for-await loop: leave the while loop or go round again
QwenAfterStream(calls) == IF Len(calls) = 0 THEN "done" ELSE "loop"

\* one pass of the for-await loop over the chunks of the completion, up to
\* the first tool call when the chunk finishes with "tool_calls"
QwenChunk ==
  /\ pc = "chunks"
  /\ provider = "qwen"
  /\ \/ \* the stream ends
        /\ pc' = QwenAfterStream(batch)
        /\ UNCHANGED <<out, batch, idx, text, chunks, hist>>
     \/ \* reading the stream throws
        /\ out' = Emit(out, Ev("ERROR", "stream"))
        /\ pc' = "done"
        /\ hist' = Fail(hist)
        /\ UNCHANGED <<batch, idx, text, chunks>>
     \/ /\ chunks < MaxChunks
        /\ chunks' = chunks + 1
        /\ IF aborted
           THEN /\ out' = Emit(out, Ev("DONE", "stopped"))
                /\ pc' = "done"
                /\ UNCHANGED <<batch, idx, text, hist>>
           ELSE \E c \in QwenChunks :
                  LET d == QwenDelta(c)
                      calls == batch \o d
                      full == IF c = "content" THEN "text" ELSE text
                      o1 == IF c = "content" THEN Emit(out, Ev("UPDATE", "text")) ELSE out
                  IN /\ Len(calls) <= MaxBatch
                     /\ hist' = [hist EXCEPT
                                   !.bLen = hist.bLen + Len(d),
                                   !.bKnown = hist.bKnown /\ c # "call:other",
                                   !.endText = IF c = "finish:stop" /\ calls = <<>>
                                               THEN full ELSE hist.endText]
                     /\ idx' = 1
                     /\ batch' = calls
                     /\ text' = full
                     /\ IF c = "finish:tool_calls" /\ Len(calls) > 0
                        THEN /\ out' = o1
                             /\ pc' = "batch"
                        ELSE IF c = "finish:stop"
                        THEN /\ out' = Emit(o1, Ev("DONE", full))
                             /\ pc' = QwenAfterStream(calls)
                        ELSE /\ out' = o1
                             /\ pc' = "chunks"
  /\ UNCHANGED <<route, scaler, shell, sse, poll, provider, aborted, iteration>>

\* one pass of the for loop over toolCalls; after the last one toolCalls and
\* fullContent are cleared and the for-await loop continues
QwenTool ==
  /\ pc = "batch"
  /\ provider = "qwen"
  /\ idx <= Len(batch)
  /\ \E r \in {"skip", "ok", "badargs", "throw", "shotthrow"} :
       /\ r = "skip" <=> ~IsComputer(batch[idx])
       \* an unrecognised action makes no call on the desktop
       /\ batch[idx] = "unknown" => r # "throw"
       /\ LET h1 == Driver(Dispatch(hist, idx), 1)
              h2 == [h1 EXCEPT !.bActions = h1.bActions + 1]
              \* the assistant turn with the call, the tool turn with a text,
              \* then the screenshot and the user turn
              h3 == Push(Push([h2 EXCEPT !.bCompleted = h2.bCompleted + 1],
                              Turn("assistant", <<idx>>, <<>>)),
                         Turn("tool", <<>>, <<Result(idx, batch[idx], "text")>>))
          IN CASE r = "skip" ->
                    /\ out' = out
                    /\ hist' = hist
               [] r = "badargs" ->
                    \* JSON.parse throws before the ACTION event
                    /\ out' = Emit(out, Ev("ERROR", "action"))
                    /\ hist' = hist
               [] r = "throw" ->
                    /\ out' = EmitAll(out, <<Ev("ACTION", "computer"),
                                             Ev("ERROR", "action")>>)
                    /\ hist' = FailAction(h2)
               [] r = "shotthrow" ->
                    /\ out' = EmitAll(out, <<Ev("ACTION", "computer"),
                                             Ev("ACTION_COMPLETED", "none"),
                                             Ev("ERROR", "action")>>)
                    /\ hist' = Fail(h3)
               [] OTHER ->
                    /\ out' = EmitAll(out, <<Ev("ACTION", "computer"),
                                             Ev("ACTION_COMPLETED", "none")>>)
                    /\ hist' = Push(h3, Turn("user", <<>>, <<>>))
  /\ idx' = idx + 1
  /\ IF idx + 1 > Len(batch)
     THEN /\ batch' = <<>>
          /\ text' = "empty"
          /\ pc' = "chunks"
     ELSE /\ pc' = "batch"
          /\ UNCHANGED <<batch, text>>
  /\ UNCHANGED <<route, scaler, shell, sse, poll, provider, aborted, iteration, chunks>>

Next ==
  \/ Abort
  \/ CappedStart
  \/ CappedTurn
  \/ CappedTool
  \/ OpenAIStart
  \/ OpenAIAct
  \/ OpenAIFeed
  \/ AnthropicTurn
  \/ AnthropicTool
  \/ CommandSettles
  \/ QwenStart
  \/ QwenTurn
  \/ QwenChunk
  \/ QwenTool

Spec == Init /\ [][Next]_vars

\* ===== the chat route: POST ==================================================

MaxRouteCalls == 2   \* openai.responses.create calls explored per request

Reqs == {1, 2}       \* two requests in flight at the same server

\* the whole state of a run is idle while the route is explored
RunIdle ==
  /\ provider = "openai"
  /\ pc = "done"
  /\ aborted = FALSE
  /\ iteration = 0
  /\ batch = <<>>
  /\ idx = 1
  /\ text = "empty"
  /\ chunks = 0
  /\ out = NoOut
  /\ hist = NoHist

\* a request that has not arrived.  sandboxId: the id in the body (0: none);
\* activeSandboxId / vncUrl / desktop: the locals of POST (desktop is the id
\* of the sandbox the handle talks to); signal: signal.aborted; gen: where
\* streamComputerInteraction is suspended; call / reasoning: what the last
\* response holds; creates: responses.create calls made; ev: the types of the
\* events streamed to the client; acted: the request has sent input to its
\* desktop (executeAction or the Escape key); stops: DONE "Generation stopped
\* by user" events the route's generator has yielded; escapes: Escape keys
\* sent to the desktop
NoRequest ==
  [st |-> "idle", sandboxId |-> 0, activeSandboxId |-> 0, vncUrl |-> FALSE,
   desktop |-> 0, signal |-> FALSE, gen |-> "start", call |-> FALSE,
   reasoning |-> FALSE, creates |-> 0, ev |-> <<>>, acted |-> FALSE,
   stops |-> 0, escapes |-> 0]

\* one sandbox exists before the first request, created by an earlier one
RouteInit ==
  /\ RunIdle
  /\ scaler = <<>>
  /\ shell = <<>>
  /\ sse = <<>>
  /\ poll = <<>>
  /\ route = [req |-> [r \in Reqs |-> NoRequest], sandboxes |-> 1]

\* the test that selects the generator that starts with SANDBOX_CREATED
CreatedStream(q) == q.sandboxId = 0 /\ q.activeSandboxId # 0 /\ q.vncUrl

\* POST up to the streaming response: the sandbox is created when the body
\* names none and connected to otherwise; an error of either is a 500
RoutePost(r) ==
  /\ route.req[r].st = "idle"
  /\ \E id \in 0..route.sandboxes, ok \in BOOLEAN, url \in BOOLEAN :
       LET q == route.req[r]
           fresh == route.sandboxes + 1
           q1 == IF id = 0
                 THEN [q EXCEPT !.sandboxId = 0, !.activeSandboxId = fresh,
                                !.vncUrl = url, !.desktop = fresh]
                 ELSE [q EXCEPT !.sandboxId = id, !.activeSandboxId = id,
                                !.vncUrl = FALSE, !.desktop = id]
       IN /\ id # 0 => ~url
          /\ ~ok => ~url
          /\ route' = IF ~ok
                      THEN [route EXCEPT !.req[r] = [q EXCEPT !.st = "failed",
                                                              !.sandboxId = id]]
                      ELSE [route EXCEPT
                              !.req[r] = [q1 EXCEPT !.st = IF CreatedStream(q1)
                                                          THEN "head" ELSE "pull"],
                              !.sandboxes = IF id = 0 THEN fresh ELSE @]
  /\ UNCHANGED <<runVars, scaler, shell, sse, poll>>

\* the client disconnects: the listener aborts the controller
RouteAbort(r) ==
  /\ route.req[r].st \in {"head", "pull"}
  /\ ~route.req[r].signal
  /\ route' = [route EXCEPT !.req[r].signal = TRUE]
  /\ UNCHANGED <<runVars, scaler, shell, sse, poll>>

\* the generator of a created sandbox yields SANDBOX_CREATED again and again
RouteHeadRepeats(r) ==
  /\ route.req[r].st = "head"
  /\ route' = [route EXCEPT !.req[r].ev = Append(@, "SANDBOX_CREATED")]
  /\ UNCHANGED <<runVars, scaler, shell, sse, poll>>

\* the generator of a created sandbox: its first yield
RouteHead(r) ==
  /\ route.req[r].st = "head"
  /\ route' = [route EXCEPT !.req[r].ev = Append(@, "SANDBOX_CREATED"),
                            !.req[r].st = "pull"]
  /\ UNCHANGED <<runVars, scaler, shell, sse, poll>>

\* streamComputerInteraction from one suspension to the next: the chunk it
\* yields (type "none" when it returns) and the request after it
Chunk(t, q) == [type |-> t, req |-> q]

\* desktop.screenshot and openai.responses.create: either may throw
Respond(q) ==
  {Chunk("ERROR", [q EXCEPT !.gen = "end"]),
   Chunk("ERROR", [q EXCEPT !.gen = "end", !.creates = q.creates + 1])}
  \cup {Chunk("UPDATE", [q EXCEPT !.gen = "afterUpdate", !.call = c,
                                  !.reasoning = m, !.creates = q.creates + 1])
        : c \in BOOLEAN, m \in BOOLEAN}

streamComputerInteraction(q) ==
  CASE q.gen \in {"start", "afterCompleted"} -> Respond(q)
    [] q.gen = "afterUpdate" ->
         IF ~q.call THEN {Chunk("DONE", [q EXCEPT !.gen = "end"])}
         ELSE IF q.reasoning THEN {Chunk("REASONING", [q EXCEPT !.gen = "afterReasoning"])}
         ELSE {Chunk("ACTION", [q EXCEPT !.gen = "afterAction"])}
    [] q.gen = "afterReasoning" -> {Chunk("ACTION", [q EXCEPT !.gen = "afterAction"])}
    [] q.gen = "afterAction" ->
         \* executeAction returns or throws
         {Chunk("ACTION_COMPLETED", [q EXCEPT !.gen = "afterCompleted", !.acted = TRUE]),
          Chunk("ERROR", [q EXCEPT !.gen = "end", !.acted = TRUE])}
    [] OTHER -> {Chunk("none", q)}

\* StopGeneration that passes the chunk on after the DONE, sends no Escape
\* key and stays in the loop
StopGenerationGoesOn(q, type) ==
  [q EXCEPT !.stops = @ + 1, !.ev = Append(@, "DONE") \o <<type>>]

\* the signal is set: the generator yields DONE "Generation stopped by user"
\* in place of the chunk, the loop of createStreamingResponse enqueues it and
\* resumes the generator, which sends the Escape key and breaks; the for-await
\* loop returns the inner generator where it is suspended
StopGeneration(q, type) ==
  [q EXCEPT !.stops = @ + 1, !.ev = Append(@, "DONE"), !.escapes = @ + 1,
            !.acted = TRUE, !.st = "closed"]

\* one pass of the for-await loop of the route's generator: the inner
\* generator runs to its next yield; the chunk is passed on, or, the signal
\* being set, replaced by a DONE, the Escape key is sent and the loop left
RoutePull(r) ==
  /\ route.req[r].st = "pull"
  /\ route.req[r].gen \in {"start", "afterCompleted"} => route.req[r].creates < MaxRouteCalls
  /\ \E c \in streamComputerInteraction(route.req[r]) :
       route' = [route EXCEPT !.req[r] =
                   IF c.type = "none"
                   THEN [c.req EXCEPT !.st = "closed"]
                   ELSE IF c.req.signal
                   THEN StopGeneration(c.req, c.type)
                   ELSE [c.req EXCEPT !.ev = Append(@, c.type)]]
  /\ UNCHANGED <<runVars, scaler, shell, sse, poll>>

RouteNext ==
  \/ \E r \in Reqs : RoutePost(r)
  \/ \E r \in Reqs : RouteAbort(r)
  \/ \E r \in Reqs : RouteHead(r)
  \/ \E r \in Reqs : RoutePull(r)

RouteSpec == RouteInit /\ [][RouteNext]_vars

\* ===== ResolutionScaler and the pointer actions of executeAction =============

MaxWidth == 16    \* widest desktop of the small configuration
MaxHeight == 10   \* tallest desktop of the small configuration

\* MIN_RESOLUTION_* / MAX_RESOLUTION_* of lib/config, which the scaler imports:
\* two small configurations, explored with every desktop up to MaxWidth x
\* MaxHeight, and two configurations of the size of real desktops
SmallConfig == [min |-> <<6, 4>>, max |-> <<12, 8>>]
TightConfig == [min |-> <<2, 2>>, max |-> <<4, 3>>]
WideConfig == [min |-> <<800, 600>>, max |-> <<1920, 1080>>]
NarrowConfig == [min |-> <<640, 480>>, max |-> <<1280, 800>>]

\* the configuration and the desktop resolution a scaler is constructed with
Setups ==
  {[cfg |-> c, res |-> <<w, h>>] : c \in {SmallConfig, TightConfig},
                                   w \in 1..MaxWidth, h \in 1..MaxHeight}
  \cup {[cfg |-> WideConfig, res |-> <<1024, 768>>],
        [cfg |-> WideConfig, res |-> <<3840, 2160>>],
        [cfg |-> NarrowConfig, res |-> <<3840, 2160>>],
        [cfg |-> NarrowConfig, res |-> <<1280, 720>>]}

\* the points tried on a screen of the given size
ExamplePoints == {<<0, 0>>, <<1, 1>>, <<512, 384>>, <<640, 360>>, <<1279, 719>>}

Grid(res) ==
  IF res[1] <= MaxWidth /\ res[2] <= MaxHeight
  THEN (0..res[1]) \X (0..res[2])
  ELSE {p \in ExamplePoints : p[1] <= res[1] /\ p[2] <= res[2]}

\* the points inside a screen of the given size
Inside(res) == {p \in Grid(res) : p[1] < res[1] /\ p[2] < res[2]}

RECURSIVE GCD(_, _)
GCD(a, b) == IF b = 0 THEN a ELSE GCD(b, a % b)

\* the largest m in lo..hi-1 with m * m <= n
RECURSIVE Bisect(_, _, _)
Bisect(n, lo, hi) ==
  IF hi - lo <= 1 THEN lo
  ELSE LET m == (lo + hi) \div 2
       IN IF m * m <= n THEN Bisect(n, m, hi) ELSE Bisect(n, lo, m)

\* floor of the square root
ISqrt(n) == Bisect(n, 0, 46341)

\* Math.round(n / d) for n >= 0, d > 0: the nearest integer, a half going up.
\* The quotient is a double: where n / d is exactly a half, the double may
\* fall on either side of it, and both neighbours are results.
Round(n, d) ==
  LET k == (2 * n + d) \div (2 * d)
  IN IF (2 * n + d) % (2 * d) = 0 THEN {k - 1, k} ELSE {k}

\* Math.round of the square root of p / q for p >= 0, q > 0, with the same
\* treatment of an exact half
RoundSqrt(p, q) ==
  LET s == ISqrt((4 * p) \div q)
      k == (s + 1) \div 2
  IN IF s % 2 = 1 /\ s * s * q = 4 * p THEN {k - 1, k} ELSE {k}

\* a factor n / d as the pair <<n, d>>
Less(f, g) == f[1] * g[2] < g[1] * f[2]

\* the per-axis factor that brings one dimension within its bounds; a
\* dimension of 0 below its minimum gives MIN / 0, the factor Infinity,
\* written <<MIN, 0>>
AxisScaleFactor(v, lo, hi) ==
  IF v > hi THEN <<hi, v>> ELSE IF v < lo THEN <<lo, v>> ELSE <<1, 1>>

\* the choice of the factor that always takes the larger one
chooseScaleFactorAlwaysMax(widthScaleFactor, heightScaleFactor) ==
  IF Less(widthScaleFactor, heightScaleFactor)
  THEN heightScaleFactor ELSE widthScaleFactor

\* Math.min of the two factors when one of them is below 1, else Math.max
chooseScaleFactor(widthScaleFactor, heightScaleFactor) ==
  IF Less(widthScaleFactor, <<1, 1>>) \/ Less(heightScaleFactor, <<1, 1>>)
  THEN (IF Less(heightScaleFactor, widthScaleFactor)
        THEN heightScaleFactor ELSE widthScaleFactor)
  ELSE (IF Less(widthScaleFactor, heightScaleFactor)
        THEN heightScaleFactor ELSE widthScaleFactor)

\* the product with its fraction cut off instead of rounded
RoundScaledTruncates(v, f) ==
  IF f[2] = 0
  THEN (IF v = 0 THEN {"NaN"} ELSE {"Infinity"})
  ELSE {(v * f[1]) \div f[2]}

\* Math.round(v * f) for a factor f: with the factor Infinity the product is
\* Infinity, or NaN when v is 0, and Math.round returns it as it is
RoundScaled(v, f) ==
  IF f[2] = 0
  THEN (IF v = 0 THEN {"NaN"} ELSE {"Infinity"})
  ELSE Round(v * f[1], f[2])

\* the scaled resolutions and scale factors calculateScaledResolution can
\* return; num / den is the square of scaleFactor (the factor is the
\* geometric mean of the two final per-axis factors), in lowest terms, and
\* initial is the factor chosen before rounding, which the function logs.
\* With a width or a height of 0 one of the final per-axis factors is 0 / 0
\* or NaN / 0, and scaleFactor is NaN, written 0 / 0.
calculateScaledResolution(res, cfg) ==
  LET width == res[1]
      height == res[2]
  IN IF /\ width <= cfg.max[1] /\ width >= cfg.min[1]
        /\ height <= cfg.max[2] /\ height >= cfg.min[2]
     THEN {[scaledResolution |-> res, num |-> 1, den |-> 1, initial |-> <<1, 1>>]}
     ELSE LET widthScaleFactor == AxisScaleFactor(width, cfg.min[1], cfg.max[1])
              heightScaleFactor == AxisScaleFactor(height, cfg.min[2], cfg.max[2])
              scaleFactor == chooseScaleFactor(widthScaleFactor, heightScaleFactor)
          IN {IF width * height = 0
              THEN [scaledResolution |-> <<sw, sh>>, num |-> 0, den |-> 0,
                    initial |-> scaleFactor]
              ELSE [scaledResolution |-> <<sw, sh>>,
                    num |-> (sw * sh) \div GCD(sw * sh, width * height),
                    den |-> (width * height) \div GCD(sw * sh, width * height),
                    initial |-> scaleFactor]
              : sw \in RoundScaled(width, scaleFactor),
                sh \in RoundScaled(height, scaleFactor)}

NoShot == [size |-> <<>>, resampled |-> FALSE]

\* FactorIsOne: scaleFactor === 1
FactorIsOne(s) == s.num = s.den

\* Math.round(coordinate / scaleFactor) on each axis
scaleToOriginalSpace(s, c) ==
  RoundSqrt(c[1] * c[1] * s.den, s.num) \X RoundSqrt(c[2] * c[2] * s.den, s.num)

\* scaleToModelSpace that cuts the fraction off instead of rounding
scaleToModelSpaceTruncates(s, c) ==
  {<<ISqrt((c[1] * c[1] * s.num) \div s.den), ISqrt((c[2] * c[2] * s.num) \div s.den)>>}

\* Math.round(coordinate * scaleFactor) on each axis
scaleToModelSpace(s, c) ==
  RoundSqrt(c[1] * c[1] * s.num, s.den) \X RoundSqrt(c[2] * c[2] * s.num, s.den)

\* takeScreenshot without the test of the factor: the capture is always resized
takeScreenshotAlwaysResizes(s, sharpOk) ==
  IF sharpOk
  THEN [size |-> s.scaledResolution, resampled |-> TRUE]
  ELSE [size |-> s.originalResolution, resampled |-> FALSE]

\* takeScreenshot: the capture itself when the factor is 1, else the capture
\* resized to the scaled resolution, or the capture itself when sharp fails
takeScreenshot(s, sharpOk) ==
  IF FactorIsOne(s) \/ ~sharpOk
  THEN [size |-> s.originalResolution, resampled |-> FALSE]
  ELSE [size |-> s.scaledResolution, resampled |-> TRUE]

\* scalePoint that hands the coordinate of the model to the driver as it is
scalePointUnscaled(s, c) == {c}

\* MistralComputerStreamer.scalePoint: undefined, written <<>>, for a
\* coordinate that is missing
scalePoint(s, c) == IF c = <<>> THEN {<<>>} ELSE scaleToOriginalSpace(s, c)

ClickKinds == {"left_click", "double_click", "triple_click", "right_click", "middle_click"}

\* a tool call without arguments.  A point is <<x, y>> and <<>> when it is
\* missing; path is a list of points; every other argument is <<v>> when it
\* is present and <<>> when it is missing.  Amounts are counted in halves
\* (<<5>> is 2.5), a string is the list of its pieces, where "+" and " " are
\* the plus sign and the blank and every other piece is a run of other
\* characters, and keys is a list of strings.
NoArguments ==
  [kind |-> "none", coordinate |-> <<>>, start_coordinate |-> <<>>,
   end_coordinate |-> <<>>, path |-> <<>>, text |-> <<>>,
   direction |-> <<>>, scroll_direction |-> <<>>,
   amount |-> <<>>, scroll_amount |-> <<>>, clicks |-> <<>>,
   keys |-> <<>>, key |-> <<>>]

\* an action with a coordinate, or a drag from c to e
Action(kind, c, e) ==
  IF kind = "left_click_drag"
  THEN [NoArguments EXCEPT !.kind = kind, !.start_coordinate = c, !.end_coordinate = e]
  ELSE [NoArguments EXCEPT !.kind = kind, !.coordinate = c]

\* the operations tried on a scaler: the pointer actions of executeAction
\* with their coordinates present and no text (a drag ends in a corner of the
\* screen), take_screenshot, the two conversions called on their own, and
\* the round trip of a point of the desktop
Actions(r, res) ==
  {Action(k, c, <<>>) : k \in ClickKinds \cup {"mouse_move", "scroll", "scaleToOriginalSpace"},
                        c \in Grid(r.scaledResolution)}
  \cup {Action("left_click_drag", c, e) : c \in Grid(r.scaledResolution),
                                          e \in {<<0, 0>>, r.scaledResolution}}
  \cup {Action("scaleToModelSpace", c, <<>>) : c \in Grid(res)}
  \cup {Action("testCoordinateRoundTrip", c, <<>>) : c \in Inside(res)}
  \cup {Action("take_screenshot", <<>>, <<>>)}

\* new ResolutionScaler(desktop, originalResolution), and the operation that
\* is about to be applied.  op: "new" before the operation, "done" after it;
\* calls: the calls the action made on the desktop; point: the point a
\* conversion returned; modelSpace: the point in the model's space a round
\* trip went through; shot: the screenshot returned
ResolutionScaler(cfg, res, r, a) ==
  [cfg |-> cfg, originalResolution |-> res,
   scaledResolution |-> r.scaledResolution, num |-> r.num, den |-> r.den,
   op |-> "new", action |-> a, calls |-> <<>>, point |-> <<>>,
   modelSpace |-> <<>>, shot |-> NoShot, streamer |-> "mistral.ts",
   thrown |-> FALSE]

ScalerInit ==
  /\ RunIdle
  /\ route = <<>>
  /\ shell = <<>>
  /\ sse = <<>>
  /\ poll = <<>>
  /\ \E u \in Setups :
       \E r \in calculateScaledResolution(u.res, u.cfg) :
         \* a scaled resolution with a side of 0 gives the factor 0, and the
         \* conversions then return Infinity or NaN: no operation is tried
         /\ r.scaledResolution[1] > 0
         /\ r.scaledResolution[2] > 0
         /\ \E a \in Actions(r, u.res) :
              scaler = ResolutionScaler(u.cfg, u.res, r, a)

Call(prim, at, to) == [prim |-> prim, at |-> at, to |-> to]

\* desktop.press(keys): a list of one key is passed as the key itself
Press(keys) ==
  [prim |-> "press", at |-> <<>>, to |-> <<>>, keys |-> keys, asString |-> Len(keys) = 1]

\* desktop.scroll(direction, amount)
Scroll(direction, amount) ==
  [prim |-> "scroll", at |-> <<>>, to |-> <<>>, direction |-> direction, amount |-> amount]

\* a ?? b
Coalesce(a, b) == IF a # <<>> THEN a ELSE b

\* the click calls of executeAction at the target t
ClickCalls(kind, t) ==
  CASE kind \in {"click", "left_click"} -> <<Call("leftClick", t, <<>>)>>
    [] kind = "double_click" -> <<Call("doubleClick", t, <<>>)>>
    [] kind = "triple_click" -> <<Call("leftClick", t, <<>>), Call("leftClick", t, <<>>),
                                  Call("leftClick", t, <<>>)>>
    [] kind = "right_click" -> <<Call("rightClick", t, <<>>)>>
    [] OTHER -> <<Call("middleClick", t, <<>>)>>

\* if ("text" in action && action.text) await desktop.press(action.text)
PressText(a) ==
  IF a.text # <<>> /\ a.text[1] # <<>> THEN <<Press(<<a.text[1]>>)>> ELSE <<>>

\* executeAction, a click of any kind: without a target a warning is logged
\* and nothing is called
ExecuteClick ==
  /\ scaler.op = "new"
  /\ scaler.streamer = "mistral.ts"
  /\ scaler.action.kind \in ClickKinds \cup {"click"}
  /\ \E t \in scalePoint(scaler, scaler.action.coordinate) :
       scaler' = IF t = <<>>
                 THEN [scaler EXCEPT !.op = "done"]
                 ELSE [scaler EXCEPT !.op = "done",
                         !.calls = <<Call("moveMouse", t, <<>>)>>
                                   \o PressText(scaler.action)
                                   \o ClickCalls(scaler.action.kind, t)]
  /\ UNCHANGED <<runVars, route, shell, sse, poll>>

\* executeAction of the streamer of part_007, click / right_click /
\* double_click: action.coordinate[0] is read at once, which throws a
\* TypeError when the action has no coordinate
ExecuteClickUnguarded ==
  /\ scaler.op = "new"
  /\ scaler.streamer = "part_007"
  /\ scaler.action.kind \in {"click", "right_click", "double_click"}
  /\ IF scaler.action.coordinate = <<>>
     THEN scaler' = [scaler EXCEPT !.op = "done", !.thrown = TRUE]
     ELSE \E t \in scaleToOriginalSpace(scaler, scaler.action.coordinate) :
            scaler' = [scaler EXCEPT !.op = "done",
                         !.calls = ClickCalls(scaler.action.kind, t)]
  /\ UNCHANGED <<runVars, route, shell, sse, poll>>

\* executeAction, move / mouse_move
ExecuteMove ==
  /\ scaler.op = "new"
  /\ scaler.action.kind = "mouse_move"
  /\ \E t \in scalePoint(scaler, scaler.action.coordinate) :
       scaler' = IF t = <<>>
                 THEN [scaler EXCEPT !.op = "done"]
                 ELSE [scaler EXCEPT !.op = "done", !.calls = <<Call("moveMouse", t, <<>>)>>]
  /\ UNCHANGED <<runVars, route, shell, sse, poll>>

\* action.direction ?? action.scroll_direction ?? undefined
getScrollDirection(a) == Coalesce(a.direction, a.scroll_direction)

\* getScrollAmount that looks at clicks first
getScrollAmountClicksFirst(a) ==
  Coalesce(a.clicks, Coalesce(a.amount, Coalesce(a.scroll_amount, <<6>>)))

\* action.amount ?? action.scroll_amount ?? action.clicks ?? 3, in halves
getScrollAmount(a) ==
  Coalesce(a.amount, Coalesce(a.scroll_amount, Coalesce(a.clicks, <<6>>)))

\* Math.round of h halves: the nearest integer, a half going up
MathRound(h) == (h + 1) \div 2

\* Math.max(1, n)
AtLeastOne(n) == IF n < 1 THEN 1 ELSE n

\* executeAction, scroll: the pointer is moved when there is a target, then
\* the wheel is turned up or down
ExecuteScroll ==
  /\ scaler.op = "new"
  /\ scaler.action.kind = "scroll"
  /\ \E t \in scalePoint(scaler, scaler.action.coordinate) :
       LET direction == Coalesce(getScrollDirection(scaler.action), <<"down">>)[1]
           amount == AtLeastOne(MathRound(getScrollAmount(scaler.action)[1]))
       IN scaler' = [scaler EXCEPT !.op = "done",
                       !.calls = (IF t = <<>> THEN <<>> ELSE <<Call("moveMouse", t, <<>>)>>)
                                 \o <<Scroll(IF direction = "up" THEN "up" ELSE "down",
                                             amount)>>]
  /\ UNCHANGED <<runVars, route, shell, sse, poll>>

\* the end of a drag that looks at coordinate before end_coordinate
DragEndCoordinateFirst(s, a) ==
  {Coalesce(e2, Coalesce(e1, e3)) :
     e1 \in scalePoint(s, a.end_coordinate),
     e2 \in scalePoint(s, a.coordinate),
     e3 \in scalePoint(s, IF Len(a.path) > 0 THEN a.path[Len(a.path)] ELSE <<>>)}

\* the end of a drag: scalePoint(end_coordinate) ?? scalePoint(coordinate) ??
\* scalePoint(the last point of path)
DragEnd(s, a) ==
  {Coalesce(e1, Coalesce(e2, e3)) :
     e1 \in scalePoint(s, a.end_coordinate),
     e2 \in scalePoint(s, a.coordinate),
     e3 \in scalePoint(s, IF Len(a.path) > 0 THEN a.path[Len(a.path)] ELSE <<>>)}

\* executeAction, drag / left_click_drag: without a start or an end a
\* warning is logged and nothing is called
ExecuteDrag ==
  /\ scaler.op = "new"
  /\ scaler.action.kind = "left_click_drag"
  /\ \E start \in scalePoint(scaler, scaler.action.start_coordinate),
        end \in DragEnd(scaler, scaler.action) :
       scaler' = IF start = <<>> \/ end = <<>>
                 THEN [scaler EXCEPT !.op = "done"]
                 ELSE [scaler EXCEPT !.op = "done", !.calls = <<Call("drag", start, end)>>]
  /\ UNCHANGED <<runVars, route, shell, sse, poll>>

\* String.split("+"): the pieces between the plus signs, empty ones included
RECURSIVE Split(_)
Split(str) ==
  IF str = <<>> THEN << <<>> >>
  ELSE IF Head(str) = "+" THEN << <<>> >> \o Split(Tail(str))
  ELSE LET rest == Split(Tail(str))
       IN << <<Head(str)>> \o Head(rest) >> \o Tail(rest)

\* the white space String.trim() removes: the blank and the line feed
WhiteSpace == {" ", "\n"}

RECURSIVE TrimStart(_)
TrimStart(str) ==
  IF str # <<>> /\ Head(str) \in WhiteSpace THEN TrimStart(Tail(str)) ELSE str

RECURSIVE TrimEnd(_)
TrimEnd(str) ==
  IF str # <<>> /\ str[Len(str)] \in WhiteSpace
  THEN TrimEnd(SubSeq(str, 1, Len(str) - 1)) ELSE str

\* String.trim()
Trim(str) == TrimEnd(TrimStart(str))

NotEmpty(str) == Len(str) > 0

\* extractKeySequence that keeps a chord string as one key
extractKeySequenceUnsplit(a) ==
  IF Len(a.keys) > 0 THEN <<a.keys>>
  ELSE LET keyCandidate == Coalesce(a.key, a.text)
       IN IF keyCandidate = <<>> \/ keyCandidate[1] = <<>> THEN <<>>
          ELSE << <<keyCandidate[1]>> >>

\* extractKeySequence: <<list>>, or <<>> for undefined
extractKeySequence(a) ==
  IF Len(a.keys) > 0 THEN <<a.keys>>
  ELSE LET keyCandidate == Coalesce(a.key, a.text)
       IN IF keyCandidate = <<>> \/ keyCandidate[1] = <<>> THEN <<>>
          ELSE LET parts == Split(keyCandidate[1])
                   normalized == SelectSeq([i \in 1..Len(parts) |-> Trim(parts[i])],
                                           NotEmpty)
               IN IF Len(normalized) > 0 THEN <<normalized>>
                  ELSE << <<keyCandidate[1]>> >>

\* executeAction, key: without a key a warning is logged and nothing is called
ExecuteKey ==
  /\ scaler.op = "new"
  /\ scaler.action.kind = "key"
  /\ LET sequence == extractKeySequence(scaler.action)
     IN scaler' = IF sequence = <<>> \/ Len(sequence[1]) = 0
                  THEN [scaler EXCEPT !.op = "done"]
                  ELSE [scaler EXCEPT !.op = "done", !.calls = <<Press(sequence[1])>>]
  /\ UNCHANGED <<runVars, route, shell, sse, poll>>

\* executeAction, take_screenshot: takeScreenshot of the scaler
ExecuteScreenshot ==
  /\ scaler.op = "new"
  /\ scaler.action.kind = "take_screenshot"
  /\ \E sharpOk \in BOOLEAN :
       scaler' = [scaler EXCEPT !.op = "done", !.shot = takeScreenshot(scaler, sharpOk)]
  /\ UNCHANGED <<runVars, route, shell, sse, poll>>

\* a call of scaleToOriginalSpace on a point of the model's screen
ToOriginalSpace ==
  /\ scaler.op = "new"
  /\ scaler.action.kind = "scaleToOriginalSpace"
  /\ \E t \in scaleToOriginalSpace(scaler, scaler.action.coordinate) :
       scaler' = [scaler EXCEPT !.op = "done", !.point = t]
  /\ UNCHANGED <<runVars, route, shell, sse, poll>>

\* a call of scaleToModelSpace on a point of the desktop
ToModelSpace ==
  /\ scaler.op = "new"
  /\ scaler.action.kind = "scaleToModelSpace"
  /\ \E t \in scaleToModelSpace(scaler, scaler.action.coordinate) :
       scaler' = [scaler EXCEPT !.op = "done", !.point = t]
  /\ UNCHANGED <<runVars, route, shell, sse, poll>>

\* testCoordinateRoundTrip on a point of the desktop
TestCoordinateRoundTrip ==
  /\ scaler.op = "new"
  /\ scaler.action.kind = "testCoordinateRoundTrip"
  /\ \E m \in scaleToModelSpace(scaler, scaler.action.coordinate) :
       \E t \in scaleToOriginalSpace(scaler, m) :
         scaler' = [scaler EXCEPT !.op = "done", !.modelSpace = m, !.point = t]
  /\ UNCHANGED <<runVars, route, shell, sse, poll>>

ScalerNext ==
  \/ ExecuteClick
  \/ ExecuteMove
  \/ ExecuteScroll
  \/ ExecuteDrag
  \/ ExecuteScreenshot
  \/ ToOriginalSpace
  \/ ToModelSpace
  \/ TestCoordinateRoundTrip

ScalerSpec == ScalerInit /\ [][ScalerNext]_vars

\* ===== the arguments of executeAction =======================================

MaxKeyLen == 3   \* longest key string, in pieces

\* the strings a key or a text argument can hold
RECURSIVE Strings(_)
Strings(n) ==
  IF n = 0 THEN {<<>>}
  ELSE Strings(n - 1)
       \cup {Append(str, c) : str \in {t \in Strings(n - 1) : Len(t) = n - 1},
                              c \in {"ctrl", "l", "+", " "}}

\* the scalers the arguments are tried with: a 3840 x 2160 desktop shown to
\* the model as 1280 x 720, and a desktop that is not scaled
DispatchSetups ==
  {[cfg |-> NarrowConfig, res |-> <<3840, 2160>>],
   [cfg |-> WideConfig, res |-> <<1024, 768>>]}

\* points of the model's screen
DispatchPoints == {<<10, 20>>, <<640, 360>>}

Optional(S) == {<<>>} \cup {<<v>> : v \in S}

\* the tool calls tried: clicks with and without a coordinate and a text,
\* scrolls, key actions and drags with every combination of their optional
\* arguments
DispatchActions ==
  {[NoArguments EXCEPT !.kind = k, !.coordinate = c, !.text = t] :
     k \in ClickKinds \cup {"click"},
     c \in {<<>>} \cup DispatchPoints,
     t \in Optional({<<"l">>})}
  \cup {[NoArguments EXCEPT !.kind = "scroll", !.coordinate = c, !.direction = d,
                            !.scroll_direction = sd, !.amount = am,
                            !.scroll_amount = sa, !.clicks = cl] :
          c \in {<<>>, <<640, 360>>},
          d \in Optional({"up", "down", "left", "right"}),
          sd \in Optional({"up", "down"}),
          am \in Optional({-4, 0, 2, 5, 10}),
          sa \in Optional({4}),
          cl \in Optional({14})}
  \cup {[NoArguments EXCEPT !.kind = "key", !.keys = ks, !.key = k, !.text = t] :
          ks \in {<<>>, << <<"ctrl">> >>, << <<"ctrl">>, <<"l">> >>,
                  << <<"l">>, <<"ctrl">> >>, << <<"ctrl", "+", "l">> >>},
          k \in Optional(Strings(MaxKeyLen)),
          t \in Optional({<<"l">>})}
  \cup {[NoArguments EXCEPT !.kind = "left_click_drag", !.start_coordinate = st,
                            !.end_coordinate = e, !.coordinate = c, !.path = pa] :
          st \in {<<>>, <<10, 20>>},
          e \in {<<>>, <<640, 360>>},
          c \in {<<>>, <<100, 200>>},
          pa \in {<<>>, << <<30, 40>> >>, << <<30, 40>>, <<300, 400>> >>}}

\* the actions the streamer of part_007 dispatches by reading the coordinate
\* at once
UnguardedActions ==
  {[NoArguments EXCEPT !.kind = k, !.coordinate = c] :
     k \in {"click", "right_click", "double_click"},
     c \in {<<>>} \cup DispatchPoints}

\* a tool call is about to be dispatched by executeAction
DispatchInit ==
  /\ RunIdle
  /\ route = <<>>
  /\ shell = <<>>
  /\ sse = <<>>
  /\ poll = <<>>
  /\ \E u \in DispatchSetups :
       \E r \in calculateScaledResolution(u.res, u.cfg) :
         \/ \E a \in DispatchActions :
              scaler = ResolutionScaler(u.cfg, u.res, r, a)
         \/ \E a \in UnguardedActions :
              scaler = [ResolutionScaler(u.cfg, u.res, r, a) EXCEPT !.streamer = "part_007"]

DispatchNext ==
  \/ ExecuteClick
  \/ ExecuteClickUnguarded
  \/ ExecuteScroll
  \/ ExecuteDrag
  \/ ExecuteKey

DispatchSpec == DispatchInit /\ [][DispatchNext]_vars

\* ===== the construction of a ResolutionScaler ================================

\* the configuration and the desktop resolution the constructor is given:
\* every resolution up to MaxWidth x MaxHeight under the small configurations,
\* a side of 0 included, and resolutions around real desktop sizes
ConstructSetups ==
  {[cfg |-> c, res |-> <<w, h>>] : c \in {SmallConfig, TightConfig},
                                   w \in 0..MaxWidth, h \in 0..MaxHeight}
  \cup {[cfg |-> c, res |-> <<w, h>>] : c \in {WideConfig, NarrowConfig},
                                        w \in 3830..3850, h \in 2150..2170}
  \cup {[cfg |-> c, res |-> <<w, h>>] : c \in {WideConfig, NarrowConfig},
                                        w \in 630..650, h \in 470..490}
  \cup {[cfg |-> WideConfig, res |-> r] :
          r \in {<<1024, 768>>, <<0, 768>>, <<1024, 0>>, <<0, 0>>, <<3841, 101>>,
                 <<3840, 100>>, <<400, 1000>>, <<7680, 4320>>, <<2560, 1080>>}}

\* the constructor's test aspectRatioPercentage > 0.1 on the resolution r
\* computed for res, as the outcomes it can have: the relative difference of
\* the two aspect ratios is |sw * h - sh * w| / (sh * w); with a side of 0 in
\* res the percentage is NaN and the test fails; where the difference is
\* exactly 0.1% the double may fall on either side
AspectWarning(res, r) ==
  IF res[1] * res[2] = 0 THEN {FALSE}
  ELSE LET sw == r.scaledResolution[1]
           sh == r.scaledResolution[2]
           d == sw * res[2] - sh * res[1]
           diff == IF d < 0 THEN -d ELSE d
       IN IF 1000 * diff > sh * res[1] THEN {TRUE}
          ELSE IF 1000 * diff = sh * res[1] /\ diff > 0 THEN {TRUE, FALSE}
          ELSE {FALSE}

\* the arguments of new ResolutionScaler(desktop, originalResolution) before
\* the constructor has run
ConstructInit ==
  /\ RunIdle
  /\ route = <<>>
  /\ shell = <<>>
  /\ sse = <<>>
  /\ poll = <<>>
  /\ \E u \in ConstructSetups :
       scaler = [cfg |-> u.cfg, originalResolution |-> u.res, op |-> "new",
                 scaledResolution |-> <<>>, num |-> 0, den |-> 0,
                 initial |-> <<>>, warned |-> FALSE, calls |-> <<>>]

\* the constructor: calculateScaledResolution, the fields, the warning about
\* the aspect ratio.  validateCoordinateScaling, which it calls last, only
\* logs.  Nothing in it throws and nothing calls the desktop.
Construct ==
  /\ scaler.op = "new"
  /\ \E r \in calculateScaledResolution(scaler.originalResolution, scaler.cfg) :
       \E w \in AspectWarning(scaler.originalResolution, r) :
         scaler' = [scaler EXCEPT !.op = "constructed",
                      !.scaledResolution = r.scaledResolution,
                      !.num = r.num, !.den = r.den, !.initial = r.initial,
                      !.warned = w]
  /\ UNCHANGED <<runVars, route, shell, sse, poll>>

ConstructNext == Construct

ConstructSpec == ConstructInit /\ [][ConstructNext]_vars

\* ===== one bash tool call ====================================================

\* the streamers that offer a bash tool
BashProviders == {"mistral", "grok", "anthropic"}

\* the text of the command in the tool call; "command" is the text that
\* AnthropicComputerStreamer.executeAction compares it with
Commands == {"ls", "command", "make test"}

\* what desktop.commands.run does with a command: it resolves with stdout
\* and stderr, or it rejects
CommandOutcomes ==
  [rejects : BOOLEAN, stdout : {"", "out"}, stderr : {"", "err"}]

\* executeBashCommand after commands.run has settled with outcome o
executeBashCommand(o) ==
  IF o.rejects THEN "Error"
  ELSE IF o.stdout # "" THEN o.stdout
  ELSE IF o.stderr # "" THEN o.stderr
  ELSE "Command executed successfully"

NoToolResult == [output |-> "none", screenshot |-> FALSE]

\* a bash tool call is about to be dispatched.  ran: the commands run on the
\* desktop; awaited: the streamer waited for the command; result: the tool
\* result put into the conversation; ev: the events yielded; loop: whether
\* the loop goes on to the next tool call
BashInit ==
  /\ RunIdle
  /\ route = <<>>
  /\ scaler = <<>>
  /\ sse = <<>>
  /\ poll = <<>>
  /\ \E p \in BashProviders, c \in Commands, o \in CommandOutcomes,
        sh \in {"ok", "throw"} :
       shell = [provider |-> p, command |-> c, outcome |-> o, shot |-> sh,
                op |-> "new", ran |-> <<>>, awaited |-> FALSE,
                result |-> NoToolResult, ev |-> <<>>, loop |-> "pending"]

\* the bash branch of the loops of MistralComputerStreamer and
\* GrokComputerStreamer: ACTION, executeBashCommand, the screenshot, the
\* tool result, ACTION_COMPLETED; a screenshot that throws ends the run in
\* the catch block of stream()
CappedBash ==
  /\ shell.op = "new"
  /\ shell.provider \in {"mistral", "grok"}
  /\ shell' =
       IF shell.shot = "throw"
       THEN [shell EXCEPT !.op = "done", !.ran = <<shell.command>>,
                          !.awaited = TRUE, !.ev = <<"ACTION", "ERROR">>,
                          !.loop = "ended"]
       ELSE [shell EXCEPT !.op = "done", !.ran = <<shell.command>>,
                          !.awaited = TRUE,
                          !.result = [output |-> executeBashCommand(shell.outcome),
                                      screenshot |-> TRUE],
                          !.ev = <<"ACTION", "ACTION_COMPLETED">>,
                          !.loop = "continues"]
  /\ UNCHANGED <<runVars, route, scaler, sse, poll>>

\* a bash tool use in the loop of AnthropicComputerStreamer: ACTION,
\* executeAction, ACTION_COMPLETED, the screenshot, the tool result.
\* executeAction runs the command only when its text is "command", does not
\* wait for it and returns nothing; the tool result holds the screenshot alone
AnthropicBash ==
  /\ shell.op = "new"
  /\ shell.provider = "anthropic"
  /\ LET ran == IF shell.command = "command" THEN <<shell.command>> ELSE <<>>
     IN shell' =
          IF shell.shot = "throw"
          THEN [shell EXCEPT !.op = "done", !.ran = ran,
                             !.ev = <<"ACTION", "ACTION_COMPLETED", "ERROR">>,
                             !.loop = "ended"]
          ELSE [shell EXCEPT !.op = "done", !.ran = ran,
                             !.result = [output |-> "none", screenshot |-> TRUE],
                             !.ev = <<"ACTION", "ACTION_COMPLETED">>,
                             !.loop = "continues"]
  /\ UNCHANGED <<runVars, route, scaler, sse, poll>>

BashNext ==
  \/ CappedBash
  \/ AnthropicBash

BashSpec == BashInit /\ [][BashNext]_vars

\* ===== the event stream: formatSSE, parseSSEEvent, the read loop ===========

\* A string is the list of its characters; "\n" is the line feed.

MaxContentLen == 2   \* longest content of an event, in characters
MaxEvents == 2       \* most events in one response
MaxChunkLen == 3     \* longest chunk a read returns, short of the whole rest

\* the values of SSEEventType that are tried
EventTypes == {<<"d", "o", "n", "e">>, <<"u", "p", "d", "a", "t", "e">>}

\* the texts an event can carry: a letter, the quote, the backslash and the
\* line feed in every order
RECURSIVE Contents(_)
Contents(n) ==
  IF n = 0 THEN {<<>>}
  ELSE Contents(n - 1)
       \cup {Append(str, c) : str \in {t \in Contents(n - 1) : Len(t) = n - 1},
                              c \in {"a", "\"", "\\", "\n"}}

\* an event: its type and its content, each <<text>>; the content is <<>> when
\* the event has none
Events ==
  {[type |-> <<t>>, content |-> c] :
     t \in EventTypes, c \in Optional(Contents(MaxContentLen))}

\* the characters of a string as JSON.stringify writes them between quotes
RECURSIVE Escape(_)
Escape(str) ==
  IF str = <<>> THEN <<>>
  ELSE (CASE Head(str) = "\"" -> <<"\\", "\"">>
          [] Head(str) = "\\" -> <<"\\", "\\">>
          [] Head(str) = "\n" -> <<"\\", "n">>
          [] OTHER -> <<Head(str)>>) \o Escape(Tail(str))

Quoted(str) == <<"\"">> \o Escape(str) \o <<"\"">>

\* JSON.stringify that writes a string as it is, without escaping
JSONstringifyRaw(e) ==
  <<"{">> \o <<"\"", "t", "y", "p", "e", "\"", ":", "\"">> \o e.type[1] \o <<"\"">>
  \o (IF e.content = <<>> THEN <<>>
      ELSE <<",", "\"", "c", "o", "n", "t", "e", "n", "t", "\"", ":", "\"">>
           \o e.content[1] \o <<"\"">>)
  \o <<"}">>

\* JSON.stringify(event): the fields in the order they were set, a field
\* that is undefined left out
JSONstringify(e) ==
  <<"{">> \o Quoted(<<"t", "y", "p", "e">>) \o <<":">> \o Quoted(e.type[1])
  \o (IF e.content = <<>> THEN <<>>
      ELSE <<",">> \o Quoted(<<"c", "o", "n", "t", "e", "n", "t">>) \o <<":">>
           \o Quoted(e.content[1]))
  \o <<"}">>

\* formatSSE: `data: ${JSON.stringify(event)}\n\n`
formatSSE(e) ==
  <<"d", "a", "t", "a", ":", " ">> \o JSONstringify(e) \o <<"\n", "\n">>

\* the result of a parse that failed
NoParse == [ok |-> FALSE, value |-> <<>>, next |-> 0]

\* a JSON string that opens at position i of str: its value and the position
\* behind its closing quote.  A line feed inside the quotes and an escape
\* other than \", \\ and \n are errors.
RECURSIVE ParseChars(_, _, _)
ParseChars(str, i, acc) ==
  IF i > Len(str) THEN NoParse
  ELSE IF str[i] = "\"" THEN [ok |-> TRUE, value |-> acc, next |-> i + 1]
  ELSE IF str[i] = "\n" THEN NoParse
  ELSE IF str[i] = "\\"
       THEN IF i + 1 > Len(str) THEN NoParse
            ELSE IF str[i + 1] = "n" THEN ParseChars(str, i + 2, Append(acc, "\n"))
            ELSE IF str[i + 1] \in {"\"", "\\"}
                 THEN ParseChars(str, i + 2, Append(acc, str[i + 1]))
            ELSE NoParse
  ELSE ParseChars(str, i + 1, Append(acc, str[i]))

ParseString(str, i) ==
  IF i <= Len(str) /\ str[i] = "\"" THEN ParseChars(str, i + 1, <<>>) ELSE NoParse

\* the members "key":"value" of an object from position i on, up to the
\* closing brace: the list of <<key, value>> and the position behind the brace
RECURSIVE ParseMembers(_, _, _)
ParseMembers(str, i, acc) ==
  LET key == ParseString(str, i)
  IN IF ~key.ok \/ key.next > Len(str) \/ str[key.next] # ":" THEN NoParse
     ELSE LET val == ParseString(str, key.next + 1)
              members == Append(acc, <<key.value, val.value>>)
          IN IF ~val.ok \/ val.next > Len(str) THEN NoParse
             ELSE IF str[val.next] = "}"
                  THEN [ok |-> TRUE, value |-> members, next |-> val.next + 1]
             ELSE IF str[val.next] = ","
                  THEN ParseMembers(str, val.next + 1, members)
             ELSE NoParse

\* the value of the last member of the list with the given key, as <<value>>
RECURSIVE Member(_, _)
Member(members, key) ==
  IF members = <<>> THEN <<>>
  ELSE IF members[Len(members)][1] = key THEN <<members[Len(members)][2]>>
  ELSE Member(SubSeq(members, 1, Len(members) - 1), key)

\* JSON.parse(str) for an object of string members: <<event>>, or <<>> when
\* it throws.  The type and the content of the event are <<>> when the object
\* has no such member, else <<text>>.
JSONparse(str) ==
  LET json == Trim(str)
  IN IF json = <<>> \/ json[1] # "{" THEN <<>>
     ELSE LET obj == ParseMembers(json, 2, <<>>)
          IN IF ~obj.ok \/ obj.next # Len(json) + 1 THEN <<>>
             ELSE <<[type |-> Member(obj.value, <<"t", "y", "p", "e">>),
                     content |-> Member(obj.value, <<"c", "o", "n", "t", "e", "n", "t">>)]>>

\* str.startsWith(prefix)
StartsWith(str, prefix) ==
  Len(str) >= Len(prefix) /\ SubSeq(str, 1, Len(prefix)) = prefix

\* data.match(/data: ({.*})/): the text from the first "data: {" to the last
\* closing brace of the same line, as <<text>>; <<>> without a match
MatchData(data) ==
  LET starts == {i \in 1..Len(data) :
                   StartsWith(SubSeq(data, i, Len(data)),
                              <<"d", "a", "t", "a", ":", " ", "{">>)}
      ends(i) == {j \in (i + 7)..Len(data) :
                    /\ data[j] = "}"
                    /\ \A k \in (i + 7)..j : data[k] # "\n"}
      hits == {i \in starts : ends(i) # {}}
  IN IF hits = {} THEN <<>>
     ELSE LET i == CHOOSE x \in hits : \A y \in hits : x <= y
              j == CHOOSE x \in ends(i) : \A y \in ends(i) : y <= x
          IN <<SubSeq(data, i + 6, j)>>

\* parseSSEEvent that parses the frame with its prefix
parseSSEEventKeepsPrefix(data) ==
  IF Trim(data) = <<>> THEN <<>> ELSE JSONparse(data)

\* parseSSEEvent(data): <<event>>, or <<>> for null
parseSSEEvent(data) ==
  IF Trim(data) = <<>> THEN <<>>
  ELSE IF StartsWith(data, <<"d", "a", "t", "a", ":", " ">>)
       THEN LET jsonStr == Trim(SubSeq(data, 7, Len(data)))
            IN IF jsonStr = <<>> THEN <<>> ELSE JSONparse(jsonStr)
  ELSE IF MatchData(data) # <<>> THEN JSONparse(MatchData(data)[1])
  ELSE JSONparse(data)

\* an event the route is about to send
FrameInit ==
  /\ RunIdle
  /\ route = <<>>
  /\ scaler = <<>>
  /\ shell = <<>>
  /\ poll = <<>>
  /\ \E e \in Events :
       sse = [event |-> e, op |-> "new", frame |-> <<>>, parsed |-> <<>>]

\* the route formats the event
FormatFrame ==
  /\ sse.op = "new"
  /\ sse' = [sse EXCEPT !.op = "sent", !.frame = formatSSE(sse.event)]
  /\ UNCHANGED <<runVars, route, scaler, shell, poll>>

\* the client parses the frame
ParseFrame ==
  /\ sse.op = "sent"
  /\ sse' = [sse EXCEPT !.op = "parsed", !.parsed = parseSSEEvent(sse.frame)]
  /\ UNCHANGED <<runVars, route, scaler, shell, poll>>

FrameNext ==
  \/ FormatFrame
  \/ ParseFrame

FrameSpec == FrameInit /\ [][FrameNext]_vars

\* ----- the read loop of sendMessage -----------------------------------------

\* the events of a response: those with a content of at most one character
StreamEvents ==
  {e \in Events : e.content = <<>> \/ Len(e.content[1]) <= 1}

\* the responses: up to MaxEvents events
RECURSIVE Streams(_)
Streams(n) ==
  IF n = 0 THEN {<<>>}
  ELSE Streams(n - 1)
       \cup {Append(es, e) : es \in {t \in Streams(n - 1) : Len(t) = n - 1},
                             e \in StreamEvents}

\* the bytes of a response: the frames of its events one after the other
RECURSIVE Wire(_)
Wire(es) == IF es = <<>> THEN <<>> ELSE formatSSE(Head(es)) \o Wire(Tail(es))

\* the position of the first "\n\n" in str, 0 when there is none
FirstBreak(str) ==
  LET at == {i \in 1..(Len(str) - 1) : str[i] = "\n" /\ str[i + 1] = "\n"}
  IN IF at = {} THEN 0 ELSE CHOOSE i \in at : \A j \in at : i <= j

\* str.split("\n\n")
RECURSIVE SplitEvents(_)
SplitEvents(str) ==
  IF FirstBreak(str) = 0 THEN <<str>>
  ELSE <<SubSeq(str, 1, FirstBreak(str) - 1)>>
       \o SplitEvents(SubSeq(str, FirstBreak(str) + 2, Len(str)))

\* Remainder that drops the part after the last "\n\n"
RemainderDropped(events) == <<>>

\* events.pop() || "": the part after the last "\n\n", kept for the next read
Remainder(events) == events[Len(events)]

\* the for loop over the complete events: an event that is blank or does not
\* parse is skipped, the others are handled in order
RECURSIVE Handle(_, _)
Handle(parsed, events) ==
  IF events = <<>> THEN parsed
  ELSE Handle(IF Trim(Head(events)) = <<>> THEN parsed
              ELSE parsed \o parseSSEEvent(Head(events)),
              Tail(events))

\* the response of the route is on its way: nothing has been read.  emitted:
\* the events the route has formatted; wire: the bytes not yet read; buffer
\* and parsed: the buffer of the loop and the events it has parsed; cut: a
\* chunk has ended short of the end of the response; open: the reader has not
\* reported done
ReadInit ==
  /\ RunIdle
  /\ route = <<>>
  /\ scaler = <<>>
  /\ shell = <<>>
  /\ poll = <<>>
  /\ \E es \in Streams(MaxEvents) :
       sse = [emitted |-> es, wire |-> Wire(es), buffer |-> <<>>,
              parsed |-> <<>>, cut |-> FALSE, open |-> TRUE]

\* reader.read() returns a chunk: the next n bytes, for any n
ReadChunk ==
  /\ sse.open
  /\ sse.wire # <<>>
  /\ \E n \in (1..MaxChunkLen) \cup {Len(sse.wire)} :
       /\ n <= Len(sse.wire)
       /\ LET events == SplitEvents(sse.buffer \o SubSeq(sse.wire, 1, n))
          IN sse' = [sse EXCEPT
                       !.wire = SubSeq(sse.wire, n + 1, Len(sse.wire)),
                       !.buffer = Remainder(events),
                       !.parsed = Handle(sse.parsed,
                                         SubSeq(events, 1, Len(events) - 1)),
                       !.cut = @ \/ n < Len(sse.wire)]
  /\ UNCHANGED <<runVars, route, scaler, shell, poll>>

\* reader.read() returns done: what is left in the buffer is parsed
ReadDone ==
  /\ sse.open
  /\ sse.wire = <<>>
  /\ sse' = [sse EXCEPT
               !.open = FALSE,
               !.buffer = <<>>,
               !.parsed = IF Trim(sse.buffer) = <<>> THEN @
                          ELSE @ \o parseSSEEvent(sse.buffer)]
  /\ UNCHANGED <<runVars, route, scaler, shell, poll>>

ReadNext ==
  \/ ReadChunk
  \/ ReadDone

ReadSpec == ReadInit /\ [][ReadNext]_vars

\* ===== Sandbox.waitAndVerify =================================================

\* Times are counted in a unit that divides the timeout and the interval.

MaxTimeout == 4    \* longest timeout
MaxInterval == 3   \* longest interval
MaxPolls == 6      \* polls after which the model stops following a call

\* the smallest integer that is at least a / b, for b > 0
CeilDiv(a, b) == (a + b - 1) \div b

\* waitAndVerify(cmd, onResult, timeout, interval) is entered: elapsed = 0
PollInit ==
  /\ RunIdle
  /\ route = <<>>
  /\ scaler = <<>>
  /\ shell = <<>>
  /\ sse = <<>>
  /\ \E t \in 1..MaxTimeout, i \in 1..MaxInterval :
       poll = [timeout |-> t, interval |-> i, elapsed |-> 0, polls |-> 0,
               exits |-> 0, outcome |-> "running"]

\* the while test holds and commands.run(cmd) is called once more
Polling == poll.outcome = "running" /\ poll.elapsed < poll.timeout /\ poll.polls < MaxPolls

\* the command returns a result that onResult accepts: return true
PollAccepted ==
  /\ Polling
  /\ poll' = [poll EXCEPT !.polls = @ + 1, !.outcome = "true"]
  /\ UNCHANGED <<runVars, route, scaler, shell, sse>>

\* the command returns a result that onResult rejects: sleep for the
\* interval, add the interval to elapsed
PollRejected ==
  /\ Polling
  /\ poll' = [poll EXCEPT !.polls = @ + 1, !.elapsed = @ + poll.interval]
  /\ UNCHANGED <<runVars, route, scaler, shell, sse>>

\* the command exits with a CommandExitError: continue, which goes to the
\* while test past the sleep and past elapsed += interval
PollCommandExit ==
  /\ Polling
  /\ poll' = [poll EXCEPT !.polls = @ + 1, !.exits = @ + 1]
  /\ UNCHANGED <<runVars, route, scaler, shell, sse>>

\* the command fails with another error: it is thrown again
PollThrows ==
  /\ Polling
  /\ poll' = [poll EXCEPT !.polls = @ + 1, !.outcome = "thrown"]
  /\ UNCHANGED <<runVars, route, scaler, shell, sse>>

\* the while test fails: return false
PollTimedOut ==
  /\ poll.outcome = "running"
  /\ poll.elapsed >= poll.timeout
  /\ poll' = [poll EXCEPT !.outcome = "false"]
  /\ UNCHANGED <<runVars, route, scaler, shell, sse>>

PollNext ==
  \/ PollAccepted
  \/ PollRejected
  \/ PollCommandExit
  \/ PollThrows
  \/ PollTimedOut

PollSpec == PollInit /\ [][PollNext]_vars

\* ===== claims ================================================================

\* the run was not cancelled and no model or driver call threw
Undisturbed == hist.abTurn = -1 /\ ~hist.failed

\* C1: once a DONE or an ERROR event has been yielded, no further event of
\* any kind is yielded in that run.
C1_TerminalIsLast == ~out.post

\* C2: a run of stream() that has stopped has yielded a DONE or an ERROR.
C2_StoppedRunHasTerminal == pc = "done" => out.done + out.error > 0

\* the abort signal was raised in the tool loop after the k-th of n calls to
\* known tools had completed, 1 <= k < n
AbortedMidBatch ==
  /\ hist.abTurn >= 1
  /\ hist.abPc \in {"batch", "feed"}
  /\ hist.abKnown
  /\ 1 <= hist.abK
  /\ hist.abK < hist.abN

\* C3: if the abort signal is raised after the k-th tool call of an n-call
\* batch has completed (1 <= k < n), the batch yields exactly k ACTION /
\* ACTION_COMPLETED pairs, calls k+1..n are never dispatched, no further model
\* call is made, and the run ends with exactly one DONE "Generation stopped by
\* user" and no ERROR.
C3_AbortMidBatch ==
  (pc = "done" /\ AbortedMidBatch /\ ~hist.failed) =>
     /\ hist.modelCalls = hist.abTurn
     /\ hist.bActions = hist.abK
     /\ hist.bCompleted = hist.abK
     /\ hist.bDispatched = [i \in 1..hist.abK |-> i]
     /\ out.done = 1
     /\ out.doneContent = "stopped"
     /\ out.error = 0

\* C4: every ACTION event is followed by exactly one ACTION_COMPLETED event,
\* before any later ACTION event and before the run stops.
C4_ActionsCompleted == ~out.unpaired /\ (pc = "done" => ~out.open)

C6_RoundTripsCapped == hist.modelCalls <= GrokMaxIterations

\* C7: if a model call or a driver call throws, an ERROR event is yielded and
\* no further model call or dispatch follows.
C7_ThrowEndsRun == hist.failed => (out.error > 0 /\ ~hist.afterFail)

\* C8: if the driver throws while it performs a dispatched action, no ERROR
\* event is yielded for it: the run goes on.
C8_DriverErrorBestEffort == (hist.actionFailed /\ hist.abTurn = -1) => out.error = 0

\* C9: when the next model turn is requested, the n tool calls of the previous
\* turn have been dispatched once each, in the order returned (no
\* cancellation, no failure).
C9_AllDispatchedInOrder ==
  [][(/\ hist'.modelCalls > hist.modelCalls
      /\ hist.modelCalls > 0
      /\ hist.bKnown
      /\ ~aborted
      /\ ~hist.failed)
     => hist.bDispatched = [i \in 1..hist.bLen |-> i]]_vars

\* C10: if the abort signal is set when stream() is invoked, the run yields
\* exactly one event, DONE "Generation stopped by user", makes no model call
\* and dispatches no action.
C10_AbortedAtStart ==
  (pc = "done" /\ hist.abPc = "start" /\ ~hist.failed) =>
     /\ out.n = 1
     /\ out.done = 1
     /\ out.doneContent = "stopped"
     /\ hist.modelCalls = 0
     /\ hist.dispatched = 0

\* C11: if the first model turn returns non-empty text and no tool calls, the
\* run yields exactly one text-content event followed by exactly one DONE and
\* nothing else, and makes no call on the desktop at any point of the run.
C11_ZeroToolCallRun ==
  (pc = "done" /\ hist.modelCalls = 1 /\ hist.endText = "text" /\ Undisturbed) =>
     /\ out.n = 2
     /\ out.text = 1
     /\ out.done = 1
     /\ out.error = 0
     /\ ~out.post
     /\ hist.driverCalls = 0

\* C18: a run ended by a model turn without tool calls has yielded a DONE whose
\* content is the text of that turn if it is non-empty, and "Task completed"
\* otherwise.
C18_DoneContent ==
  (pc = "done" /\ hist.endText # "none") =>
     /\ out.done >= 1
     /\ out.doneContent = (IF hist.endText = "empty" THEN "task_completed"
                           ELSE hist.endText)

\* C12: at most one call on the desktop is in flight at any time: every call
\* the dispatcher started, shell commands included, has completed before the
\* next call on the desktop or the next model call starts.
C12_OneDriverCallInFlight == ~hist.overlap

\* the tool results of conversation c that answer a call with an unrecognised
\* action tag
UnknownResults(c) ==
  {c[q].results[j] : <<q, j>> \in
     {qj \in UNION {{<<q, j>> : j \in 1..Len(c[q].results)} : q \in 1..Len(c)} :
        c[qj[1]].results[qj[2]].tag = "unknown"}}

\* this step dispatches a computer call with an unrecognised action tag, and
\* no call of the run has thrown
DispatchesUnknown ==
  /\ Len(hist'.bDispatched) = Len(hist.bDispatched) + 1
  /\ batch[hist'.bDispatched[Len(hist'.bDispatched)]] = "unknown"
  /\ ~hist'.failed

\* C13: dispatching a computer call whose action tag is not recognised does
\* not throw: no ERROR is yielded, the run goes on with the next tool call or
\* model turn, and the tool result recorded for the call is a fresh screenshot.
C13_UnknownAction ==
  [][/\ DispatchesUnknown => (out'.error = out.error /\ pc' # "done")
     /\ \A r \in UnknownResults(hist'.bConv) : r.shot = "after"]_vars

IsPrefix(s, t) == Len(s) <= Len(t) /\ \A i \in 1..Len(s) : s[i] = t[i]

\* C15: stream() only appends turns to the conversation: the turns the caller
\* supplied stay as given, and the turns appended since the latest model
\* request stay in place until the next request.
C15_AppendOnly ==
  [][/\ hist'.callerLast = hist.callerLast
     /\ (hist'.modelCalls = hist.modelCalls => IsPrefix(hist.bConv, hist'.bConv))]_vars

\* a request whose response is still streaming
Streaming(r) == route.req[r].st \in {"head", "pull"}

\* C16: two requests that run at the same time never both send input to the
\* same desktop: if both are streaming and both have acted, their desktops
\* differ.
C16_NoSharedDesktop ==
  \A r1 \in Reqs, r2 \in Reqs :
    (r1 # r2 /\ Streaming(r1) /\ Streaming(r2)
       /\ route.req[r1].acted /\ route.req[r2].acted)
    => route.req[r1].desktop # route.req[r2].desktop

\* C17: in the events streamed for a request, SANDBOX_CREATED occurs at most
\* once and only as the first event, before every event of the control loop.
C17_SandboxCreatedFirst ==
  \A r \in Reqs :
    \A i \in 1..Len(route.req[r].ev) :
      route.req[r].ev[i] = "SANDBOX_CREATED" => i = 1

\* a request that created its sandbox has streamed SANDBOX_CREATED, then the
\* events of a run with one action, and has closed
C17_Witness ==
  \E r \in Reqs :
    /\ route.req[r].st = "closed"
    /\ route.req[r].sandboxId = 0
    /\ Len(route.req[r].ev) >= 6
    /\ route.req[r].ev[1] = "SANDBOX_CREATED"
    /\ route.req[r].ev[2] = "UPDATE"
    /\ \E i \in 3..Len(route.req[r].ev) : route.req[r].ev[i] = "ACTION_COMPLETED"

\* n is c / scaleFactor rounded to the nearest integer: n - 1/2 <= c /
\* scaleFactor <= n + 1/2, with the square of scaleFactor being num / den
IsRoundOf(n, c) ==
  /\ n >= 0
  /\ n = 0 \/ (2 * n - 1) * (2 * n - 1) * scaler.num <= 4 * c * c * scaler.den
  /\ 4 * c * c * scaler.den <= (2 * n + 1) * (2 * n + 1) * scaler.num

Near(a, b) == a - b <= 1 /\ b - a <= 1

\* the point of the model's screen an action starts at
ActionStart ==
  IF scaler.action.kind = "left_click_drag"
  THEN scaler.action.start_coordinate ELSE scaler.action.coordinate

\* C19: every coordinate the dispatcher passes to moveMouse, a click or drag
\* is the model's coordinate divided by the scale factor and rounded, on each
\* axis; on a 3840 x 2160 desktop scaled to 1280 x 720 the model's (640, 360)
\* reaches the driver within one pixel of (1920, 1080).
C19_DriverCoordinatesScaled ==
  \A i \in 1..Len(scaler.calls) :
    LET k == scaler.calls[i]
    IN /\ k.at # <<>> =>
            /\ IsRoundOf(k.at[1], ActionStart[1])
            /\ IsRoundOf(k.at[2], ActionStart[2])
            /\ (/\ scaler.originalResolution = <<3840, 2160>>
                /\ scaler.scaledResolution = <<1280, 720>>
                /\ scaler.action.coordinate = <<640, 360>>)
               => Near(k.at[1], 1920) /\ Near(k.at[2], 1080)
       /\ k.to # <<>> =>
            /\ IsRoundOf(k.to[1], scaler.action.end_coordinate[1])
            /\ IsRoundOf(k.to[2], scaler.action.end_coordinate[2])

\* the click of the example has been dispatched
C19_Witness ==
  /\ scaler.op = "done"
  /\ scaler.cfg = NarrowConfig
  /\ scaler.originalResolution = <<3840, 2160>>
  /\ scaler.scaledResolution = <<1280, 720>>
  /\ scaler.action = Action("left_click", <<640, 360>>, <<>>)
  /\ scaler.calls = <<Call("moveMouse", <<1920, 1080>>, <<>>),
                      Call("leftClick", <<1920, 1080>>, <<>>)>>

\* the desktop resolution lies within [min, max] on both axes
WithinBounds ==
  /\ scaler.originalResolution[1] >= scaler.cfg.min[1]
  /\ scaler.originalResolution[1] <= scaler.cfg.max[1]
  /\ scaler.originalResolution[2] >= scaler.cfg.min[2]
  /\ scaler.originalResolution[2] <= scaler.cfg.max[2]

\* C20: for a desktop resolution within the bounds the model resolution is
\* the desktop resolution, the scale factor is 1, both conversions return
\* their point unchanged (so the driver receives the model's coordinates),
\* and takeScreenshot returns the capture, not resampled.
C20_IdentityScaling ==
  WithinBounds =>
    /\ scaler.scaledResolution = scaler.originalResolution
    /\ scaler.num = 1 /\ scaler.den = 1
    /\ scaler.op = "done" =>
         /\ scaler.action.kind \in {"scaleToOriginalSpace", "scaleToModelSpace"}
              => scaler.point = scaler.action.coordinate
         /\ scaler.action.kind = "take_screenshot"
              => scaler.shot = [size |-> scaler.originalResolution, resampled |-> FALSE]
         /\ \A i \in 1..Len(scaler.calls) :
              /\ scaler.calls[i].at # <<>> => scaler.calls[i].at = ActionStart
              /\ scaler.calls[i].to # <<>> => scaler.calls[i].to = scaler.action.end_coordinate

\* the click of the identity example: 1024 x 768 within 800 x 600 .. 1920 x 1080
C20_Witness ==
  /\ scaler.op = "done"
  /\ scaler.cfg = WideConfig
  /\ scaler.originalResolution = <<1024, 768>>
  /\ scaler.scaledResolution = <<1024, 768>>
  /\ scaler.action.kind = "left_click"
  /\ scaler.action.coordinate = <<512, 384>>
  /\ scaler.calls[1] = Call("moveMouse", <<512, 384>>, <<>>)

\* the point a round trip returned is within one pixel of the point given
RoundTripWithinOne ==
  /\ Near(scaler.point[1], scaler.action.coordinate[1])
  /\ Near(scaler.point[2], scaler.action.coordinate[2])

RoundTripDone == scaler.op = "done" /\ scaler.action.kind = "testCoordinateRoundTrip"

\* C21 as stated: for a scale factor between 0.1 and 10 (its square between
\* 1/100 and 100) the round trip of every point inside the desktop returns a
\* point within one pixel of it on each axis.
C21_RoundTripAnyFactor ==
  (RoundTripDone /\ 100 * scaler.num >= scaler.den /\ scaler.num <= 100 * scaler.den)
  => RoundTripWithinOne

\* C21, amended: for a scale factor between 1/3 and 10 (its square between
\* 1/9 and 100) the round trip of every point inside the desktop returns a
\* point within one pixel of it on each axis.
C21_RoundTripFromOneThird ==
  (RoundTripDone /\ 9 * scaler.num >= scaler.den /\ scaler.num <= 100 * scaler.den)
  => RoundTripWithinOne

\* a round trip through a scaled-down screen that moved the point by a pixel
C21_Witness ==
  /\ RoundTripDone
  /\ scaler.num < scaler.den
  /\ 9 * scaler.num >= scaler.den
  /\ scaler.point # scaler.action.coordinate
  /\ RoundTripWithinOne

\* a scaler has been constructed
Constructed == scaler.op = "constructed"

\* the desktop resolution the constructor was given has no side of 0
PositiveResolution ==
  scaler.originalResolution[1] > 0 /\ scaler.originalResolution[2] > 0

\* both sides of the model resolution lie within the bounds
ModelResolutionWithin ==
  /\ scaler.scaledResolution[1] >= scaler.cfg.min[1]
  /\ scaler.scaledResolution[1] <= scaler.cfg.max[1]
  /\ scaler.scaledResolution[2] >= scaler.cfg.min[2]
  /\ scaler.scaledResolution[2] <= scaler.cfg.max[2]

\* C22: for every positive desktop resolution, the width and the height of
\* the model resolution both lie within [min, max]
C22_ModelResolutionBounded ==
  (Constructed /\ PositiveResolution) => ModelResolutionWithin

\* one side of the desktop exceeds its maximum
DownscalingRequired ==
  \/ scaler.originalResolution[1] > scaler.cfg.max[1]
  \/ scaler.originalResolution[2] > scaler.cfg.max[2]

\* no side exceeds its maximum and one is below its minimum
OnlyUpscaling ==
  /\ ~DownscalingRequired
  /\ \/ scaler.originalResolution[1] < scaler.cfg.min[1]
     \/ scaler.originalResolution[2] < scaler.cfg.min[2]

WidthFactor ==
  AxisScaleFactor(scaler.originalResolution[1], scaler.cfg.min[1], scaler.cfg.max[1])

HeightFactor ==
  AxisScaleFactor(scaler.originalResolution[2], scaler.cfg.min[2], scaler.cfg.max[2])

\* n is w * f rounded: |n - w * f| <= 1/2
RoundedProduct(n, w, f) ==
  /\ 2 * n * f[2] - 2 * w * f[1] <= f[2]
  /\ 2 * w * f[1] - 2 * n * f[2] <= f[2]

\* both sides of the model resolution are the desktop's sides times the
\* factor f, rounded
ScaledBy(f) ==
  /\ RoundedProduct(scaler.scaledResolution[1], scaler.originalResolution[1], f)
  /\ RoundedProduct(scaler.scaledResolution[2], scaler.originalResolution[2], f)

\* C23: when a side of the desktop has to be scaled down, both sides are
\* scaled by the smaller of the two per-axis factors and neither side of the
\* model resolution exceeds its maximum; when sides only have to be scaled
\* up, both are scaled by the larger factor and neither side of the model
\* resolution is below its minimum
C23_FactorChoice ==
  (Constructed /\ PositiveResolution) =>
    /\ DownscalingRequired =>
         /\ scaler.initial \in {WidthFactor, HeightFactor}
         /\ ~Less(WidthFactor, scaler.initial)
         /\ ~Less(HeightFactor, scaler.initial)
         /\ ScaledBy(scaler.initial)
         /\ scaler.scaledResolution[1] <= scaler.cfg.max[1]
         /\ scaler.scaledResolution[2] <= scaler.cfg.max[2]
    /\ OnlyUpscaling =>
         /\ scaler.initial \in {WidthFactor, HeightFactor}
         /\ ~Less(scaler.initial, WidthFactor)
         /\ ~Less(scaler.initial, HeightFactor)
         /\ ScaledBy(scaler.initial)
         /\ scaler.scaledResolution[1] >= scaler.cfg.min[1]
         /\ scaler.scaledResolution[2] >= scaler.cfg.min[2]

\* a desktop wider and taller than the maximum, scaled by the smaller factor
C23_Witness ==
  /\ Constructed
  /\ scaler.originalResolution[1] > scaler.cfg.max[1]
  /\ scaler.originalResolution[2] > scaler.cfg.max[2]
  /\ Less(HeightFactor, WidthFactor)
  /\ scaler.initial = HeightFactor
  /\ scaler.scaledResolution[2] = scaler.cfg.max[2]
  /\ scaler.scaledResolution[1] < scaler.cfg.max[1]

\* a desktop narrower and lower than the minimum, scaled by the larger factor
C23_WitnessUp ==
  /\ Constructed
  /\ PositiveResolution
  /\ scaler.originalResolution[1] < scaler.cfg.min[1]
  /\ scaler.originalResolution[2] < scaler.cfg.min[2]
  /\ Less(HeightFactor, WidthFactor)
  /\ scaler.initial = WidthFactor
  /\ scaler.scaledResolution[1] = scaler.cfg.min[1]
  /\ scaler.scaledResolution[2] > scaler.cfg.min[2]

\* C24: no scaler is constructed for a resolution with a width or a height
\* of 0: the construction fails
C24_DegenerateFails == Constructed => PositiveResolution

\* the desktop resolution is outside the bounds
OutsideBounds ==
  \/ scaler.originalResolution[1] > scaler.cfg.max[1]
  \/ scaler.originalResolution[1] < scaler.cfg.min[1]
  \/ scaler.originalResolution[2] > scaler.cfg.max[2]
  \/ scaler.originalResolution[2] < scaler.cfg.min[2]

\* |sw * h - sh * w|: the difference of the two aspect ratios times sh * h
AspectDifference ==
  LET d == scaler.scaledResolution[1] * scaler.originalResolution[2]
             - scaler.scaledResolution[2] * scaler.originalResolution[1]
  IN IF d < 0 THEN -d ELSE d

\* the aspect ratio of the model resolution differs from the desktop's by at
\* most 0.1% of the desktop's
AspectWithinTolerance ==
  1000 * AspectDifference <= scaler.scaledResolution[2] * scaler.originalResolution[1]

\* C25 as stated: for every desktop resolution outside the bounds the aspect
\* ratio of the model resolution is within 0.1% of the desktop's
C25_AspectAlwaysWithinTolerance ==
  (Constructed /\ PositiveResolution /\ OutsideBounds) => AspectWithinTolerance

\* C25, amended: for every desktop resolution outside the bounds whose model
\* resolution has more than 500 pixels on each side, the aspect ratio of the
\* model resolution is within 0.1% of the desktop's; a larger drift is
\* logged as a warning, and the constructor returns for every positive
\* resolution
C25_AspectWithinToleranceAbove500 ==
  /\ (Constructed /\ PositiveResolution /\ OutsideBounds) =>
       /\ (scaler.scaledResolution[1] > 500 /\ scaler.scaledResolution[2] > 500)
            => AspectWithinTolerance
       /\ ~AspectWithinTolerance => scaler.warned
  /\ (scaler.op = "new" /\ PositiveResolution) => ENABLED Construct

\* a large desktop whose model resolution has a rounded side, within tolerance
C25_Witness ==
  /\ Constructed
  /\ PositiveResolution
  /\ OutsideBounds
  /\ scaler.scaledResolution[1] > 500
  /\ scaler.scaledResolution[2] > 500
  /\ AspectDifference > 0
  /\ AspectWithinTolerance
  /\ ~scaler.warned

\* a bash tool call has been dispatched
BashDispatched == shell.op = "done"

\* stdout if it is not empty, else stderr if it is not empty, else the
\* generic text
ExpectedOutput ==
  IF shell.outcome.stdout # "" THEN shell.outcome.stdout
  ELSE IF shell.outcome.stderr # "" THEN shell.outcome.stderr
  ELSE "Command executed successfully"

\* C26: a dispatched bash tool call has run its command on the desktop
\* exactly once; when the command resolved and the screenshot was taken, the
\* tool result holds stdout, else stderr, else the generic text, and the loop
\* goes on
C26_BashRunsOnce ==
  BashDispatched =>
    /\ shell.ran = <<shell.command>>
    /\ (~shell.outcome.rejects /\ shell.shot = "ok") =>
         /\ shell.result.output = ExpectedOutput
         /\ shell.loop = "continues"

\* the same for the loops of Mistral and Grok alone
C26_CappedBashRunsOnce ==
  (BashDispatched /\ shell.provider \in {"mistral", "grok"}) =>
    /\ shell.ran = <<shell.command>>
    /\ (~shell.outcome.rejects /\ shell.shot = "ok") =>
         /\ shell.result.output = ExpectedOutput
         /\ shell.loop = "continues"

\* a click without a coordinate has been dispatched
MissingCoordinateClick ==
  /\ scaler.op = "done"
  /\ scaler.action.kind \in ClickKinds \cup {"click"}
  /\ scaler.action.coordinate = <<>>

\* C27: a click of any kind that carries no coordinate makes no call on the
\* desktop and throws no exception
C27_MissingCoordinateNoOp ==
  MissingCoordinateClick => scaler.calls = <<>> /\ ~scaler.thrown

\* the same for the executeAction of lib/streaming/mistral.ts alone
C27_GuardedMissingCoordinateNoOp ==
  (MissingCoordinateClick /\ scaler.streamer = "mistral.ts")
    => scaler.calls = <<>> /\ ~scaler.thrown

\* a scroll has been dispatched
ScrollDone == scaler.op = "done" /\ scaler.action.kind = "scroll"

\* the direction asked for: direction, else scroll_direction
RequestedDirection ==
  IF scaler.action.direction # <<>> THEN scaler.action.direction
  ELSE scaler.action.scroll_direction

\* the first present of amount, scroll_amount and clicks, else 3; in halves
FirstPresentAmount ==
  IF scaler.action.amount # <<>> THEN scaler.action.amount[1]
  ELSE IF scaler.action.scroll_amount # <<>> THEN scaler.action.scroll_amount[1]
  ELSE IF scaler.action.clicks # <<>> THEN scaler.action.clicks[1]
  ELSE 6

\* the last call of the action is the only scroll, and it goes up exactly
\* when up was asked for
ScrollsUpOrDown ==
  /\ Len(scaler.calls) >= 1
  /\ \A i \in 1..Len(scaler.calls) :
       (scaler.calls[i].prim = "scroll") = (i = Len(scaler.calls))
  /\ scaler.calls[Len(scaler.calls)].direction =
       (IF RequestedDirection = <<"up">> THEN "up" ELSE "down")

\* C28 as stated: a scroll calls the driver's scroll with "up" when up was
\* asked for and "down" otherwise, and with the first present of amount,
\* scroll_amount and clicks, or 3, as it is
C28_ScrollAmountAsGiven ==
  ScrollDone =>
    /\ ScrollsUpOrDown
    /\ 2 * scaler.calls[Len(scaler.calls)].amount = FirstPresentAmount

\* C28, amended: a scroll calls the driver's scroll with "up" when up was
\* asked for and "down" otherwise, and with the first present of amount,
\* scroll_amount and clicks, or 3, rounded to the nearest integer and raised
\* to 1 when it is below 1
C28_ScrollAmountRounded ==
  ScrollDone =>
    /\ ScrollsUpOrDown
    /\ LET n == scaler.calls[Len(scaler.calls)].amount
       IN /\ FirstPresentAmount >= 1 =>
               /\ 2 * n - 1 <= FirstPresentAmount
               /\ FirstPresentAmount <= 2 * n
          /\ FirstPresentAmount < 1 => n = 1

\* a scroll to the left by scroll_amount 2, with clicks given as well
C28_Witness ==
  /\ ScrollDone
  /\ scaler.action.direction = <<"left">>
  /\ scaler.action.amount = <<>>
  /\ scaler.action.scroll_amount = <<4>>
  /\ scaler.action.clicks = <<14>>
  /\ scaler.action.coordinate = <<>>
  /\ scaler.calls = <<Scroll("down", 2)>>

\* a key action has been dispatched
KeyDone == scaler.op = "done" /\ scaler.action.kind = "key"

\* the key string of the action: key, else text; <<>> when there is none
KeyString ==
  IF scaler.action.key # <<>> THEN scaler.action.key[1]
  ELSE IF scaler.action.text # <<>> THEN scaler.action.text[1]
  ELSE <<>>

\* a chord: keys without blanks joined by single plus signs
IsChord(str) ==
  /\ Len(str) > 0
  /\ str[1] # "+"
  /\ str[Len(str)] # "+"
  /\ \A i \in 1..Len(str) : str[i] # " "
  /\ \A i \in 1..(Len(str) - 1) : ~(str[i] = "+" /\ str[i + 1] = "+")

\* the strings of a list joined by plus signs
RECURSIVE Join(_)
Join(list) ==
  IF Len(list) = 0 THEN <<>>
  ELSE IF Len(list) = 1 THEN list[1]
  ELSE list[1] \o <<"+">> \o Join(Tail(list))

\* C29: a key action with a list of keys presses the list as it is; with a
\* key string it presses a list that is not empty, and for a chord the list
\* holds the keys between the plus signs in order: "ctrl+l" is pressed as
\* [ctrl, l]
C29_KeySequence ==
  KeyDone =>
    /\ Len(scaler.action.keys) > 0 => scaler.calls = <<Press(scaler.action.keys)>>
    /\ (Len(scaler.action.keys) = 0 /\ Len(KeyString) > 0) =>
         /\ Len(scaler.calls) = 1
         /\ scaler.calls[1].prim = "press"
         /\ Len(scaler.calls[1].keys) > 0
         /\ IsChord(KeyString) =>
              /\ Join(scaler.calls[1].keys) = KeyString
              /\ \A i \in 1..Len(scaler.calls[1].keys) :
                   \A k \in 1..Len(scaler.calls[1].keys[i]) :
                     scaler.calls[1].keys[i][k] # "+"
         /\ KeyString = <<"ctrl", "+", "l">> =>
              scaler.calls[1].keys = << <<"ctrl">>, <<"l">> >>

\* the key string "ctrl+l" has been pressed
C29_Witness ==
  /\ KeyDone
  /\ scaler.action.keys = <<>>
  /\ scaler.action.key = << <<"ctrl", "+", "l">> >>
  /\ scaler.calls = <<Press(<< <<"ctrl">>, <<"l">> >>)>>

\* a drag has been dispatched
DragDone == scaler.op = "done" /\ scaler.action.kind = "left_click_drag"

\* end_coordinate if present, else coordinate if present, else the last
\* point of path; <<>> when there is none
ExpectedEnd ==
  IF scaler.action.end_coordinate # <<>> THEN scaler.action.end_coordinate
  ELSE IF scaler.action.coordinate # <<>> THEN scaler.action.coordinate
  ELSE IF Len(scaler.action.path) > 0 THEN scaler.action.path[Len(scaler.action.path)]
  ELSE <<>>

\* C30: a drag without a start or without any end makes no call on the
\* desktop; otherwise it calls drag once, from the start to end_coordinate
\* if present, else coordinate if present, else the last point of path, both
\* points scaled to the desktop
C30_DragEndPoint ==
  DragDone =>
    IF scaler.action.start_coordinate = <<>> \/ ExpectedEnd = <<>>
    THEN scaler.calls = <<>>
    ELSE /\ Len(scaler.calls) = 1
         /\ scaler.calls[1].prim = "drag"
         /\ IsRoundOf(scaler.calls[1].at[1], scaler.action.start_coordinate[1])
         /\ IsRoundOf(scaler.calls[1].at[2], scaler.action.start_coordinate[2])
         /\ IsRoundOf(scaler.calls[1].to[1], ExpectedEnd[1])
         /\ IsRoundOf(scaler.calls[1].to[2], ExpectedEnd[2])

\* a drag that ends at the last point of its path, on the scaled desktop
C30_Witness ==
  /\ DragDone
  /\ scaler.originalResolution = <<3840, 2160>>
  /\ scaler.action.start_coordinate = <<10, 20>>
  /\ scaler.action.end_coordinate = <<>>
  /\ scaler.action.coordinate = <<>>
  /\ scaler.action.path = << <<30, 40>>, <<300, 400>> >>
  /\ scaler.calls = <<Call("drag", <<30, 60>>, <<900, 1200>>)>>

\* a drag without an end makes no call
C30_WitnessNoEnd ==
  /\ DragDone
  /\ scaler.action.start_coordinate # <<>>
  /\ ExpectedEnd = <<>>
  /\ scaler.calls = <<>>

\* C31: the frame of an event is "data: ", the JSON text of the event and two
\* line feeds, the JSON text holds no line feed, and parseSSEEvent of the
\* frame returns an event with the same type and the same content
C31_FrameRoundTrip ==
  /\ sse.op \in {"sent", "parsed"} =>
       /\ SubSeq(sse.frame, 1, 6) = <<"d", "a", "t", "a", ":", " ">>
       /\ SubSeq(sse.frame, Len(sse.frame) - 1, Len(sse.frame)) = <<"\n", "\n">>
       /\ SubSeq(sse.frame, 7, Len(sse.frame) - 2) = JSONstringify(sse.event)
       /\ \A i \in 7..(Len(sse.frame) - 2) : sse.frame[i] # "\n"
  /\ sse.op = "parsed" => sse.parsed = <<sse.event>>

\* an event whose content holds a quote and a line feed has come back
C31_Witness ==
  /\ sse.op = "parsed"
  /\ sse.event.content = << <<"\"", "\n">> >>
  /\ sse.parsed = <<sse.event>>

\* C32: a call of waitAndVerify polls at most ceil(timeout / interval) times,
\* whatever the command does, CommandExitError on every poll included
C32_PollsBounded ==
  poll.polls <= CeilDiv(poll.timeout, poll.interval)

\* C32, for calls in which the command has not exited with CommandExitError:
\* at most ceil(timeout / interval) polls, and false is returned only after
\* exactly that many
C32_PollsBoundedWithoutExit ==
  poll.exits = 0 =>
    /\ poll.polls <= CeilDiv(poll.timeout, poll.interval)
    /\ poll.outcome = "false" => poll.polls = CeilDiv(poll.timeout, poll.interval)

\* a call has polled more often than ceil(timeout / interval) and every poll
\* ended in CommandExitError, with no time counted
C32_ExitsUncounted ==
  /\ poll.polls > CeilDiv(poll.timeout, poll.interval)
  /\ poll.exits = poll.polls
  /\ poll.elapsed = 0
  /\ poll.outcome = "running"

\* the terminal events, DONE and ERROR, among the events streamed
Terminals(ev) == Cardinality({i \in 1..Len(ev) : ev[i] \in {"DONE", "ERROR"}})

AbortBeforeLimitStep ==
  provider \in Capped =>
       /\ (pc \in {"loop", "batch"} /\ aborted) =>
            /\ pc' = "done"
            /\ out' = Emit(out, Ev("DONE", "stopped"))
       /\ (out'.errorContent = "limit" /\ out.errorContent # "limit") =>
            /\ ~aborted
            /\ ~aborted'
            /\ out' = Emit(out, Ev("ERROR", "limit"))

\* C34: in the capped loops, a loop that is left with the signal set ends the
\* run with DONE "Generation stopped by user", also when the counter has
\* reached the cap; the ERROR naming the iteration limit is yielded only with
\* the signal not set
C34_AbortBeforeLimit == [][AbortBeforeLimitStep]_vars

\* a capped run was stopped with the counter at the cap: it ended with the
\* DONE of the stop and without an ERROR
C34_Witness ==
  /\ provider = "mistral"
  /\ pc = "done"
  /\ aborted
  /\ iteration = MistralMaxIterations
  /\ hist.abTurn = MistralMaxIterations
  /\ out.doneContent = "stopped"
  /\ out.error = 0

\* C35: in the capped loops, the ERROR naming the iteration limit is yielded
\* only after exactly maxIterations model turns of which the last returned at
\* least one tool call; a run whose turn number maxIterations returns no tool
\* call ends with a DONE and without an ERROR
C35_LimitOnlyAfterToolCalls ==
  provider \in Capped =>
    LET cap == IF provider = "mistral" THEN MistralMaxIterations
               ELSE GrokMaxIterations
    IN /\ out.errorContent = "limit" =>
            /\ hist.modelCalls = cap
            /\ iteration = cap
            /\ hist.bLen >= 1
            /\ hist.endText = "none"
            /\ out.done = 0
       /\ (pc = "done" /\ hist.modelCalls = cap /\ hist.endText # "none") =>
            /\ out.error = 0
            /\ out.done = 1
            /\ out.doneContent # "stopped"

\* turn number maxIterations of a Grok run returned no tool call and the run
\* ended with a DONE
C35_Witness ==
  /\ provider = "grok"
  /\ pc = "done"
  /\ hist.modelCalls = GrokMaxIterations
  /\ hist.endText = "text"
  /\ out.done = 1
  /\ out.error = 0

\* the tool calls among the first n of batch b that name the computer tool or
\* bash, in order
KnownIndices(b, n) ==
  SelectSeq([i \in 1..n |-> i], LAMBDA i : b[i] # "other")

\* the ACTION and ACTION_COMPLETED events, the calls on the desktop and the
\* turns of the conversation that the run has made so far
Traces(o, h) ==
  <<o, h.bActions, h.bCompleted, h.driverCalls, h.dispatched, h.bConv>>

\* a step of a capped loop: a call of an unknown tool leaves no trace and the
\* loop goes on; the calls dispatched are the known ones, in order
UnknownToolSkippedStep ==
  provider \in Capped =>
       /\ (pc = "batch" /\ ~aborted /\ ~aborted' /\ batch[idx] = "other") =>
            /\ Traces(out', hist') = Traces(out, hist)
            /\ batch' = batch
            /\ idx' = idx + 1
            /\ pc' = IF idx + 1 > Len(batch) THEN "loop" ELSE "batch"
       /\ pc' \in {"batch", "loop"} =>
            /\ hist'.bDispatched = KnownIndices(batch', idx' - 1)
            /\ hist'.bActions = Len(hist'.bDispatched)
            /\ hist'.bCompleted = Len(hist'.bDispatched)

\* C36: in the capped loops, a tool call that names neither the computer tool
\* nor bash yields no event, makes no call on the desktop and adds nothing to
\* the conversation, and the loop goes on to the next tool call of the batch:
\* the tool calls dispatched are those of the batch that name a known tool,
\* in order, each with its ACTION
C36_UnknownToolSkipped == [][UnknownToolSkippedStep]_vars

\* a batch of a call of an unknown tool and then a call of the computer tool
\* has been processed: the second call alone was dispatched
C36_Witness ==
  /\ provider \in Capped
  /\ pc = "loop"
  /\ Len(batch) = 2
  /\ batch[1] = "other"
  /\ IsComputer(batch[2])
  /\ idx = 3
  /\ hist.bDispatched = <<2>>
  /\ hist.bActions = 1

\* C37: however the frames of a response are cut into chunks, the events the
\* read loop has parsed are at every moment the first of the events emitted,
\* in order, and when the reader is done they are all of them
C37_ChunkingPreservesEvents ==
  /\ Len(sse.parsed) <= Len(sse.emitted)
  /\ sse.parsed = SubSeq(sse.emitted, 1, Len(sse.parsed))
  /\ ~sse.open => sse.parsed = sse.emitted

\* a response of two events, the first with a line feed as its content, was
\* read in chunks that are not whole frames, and both events were parsed
C37_Witness ==
  /\ ~sse.open
  /\ sse.cut
  /\ Len(sse.emitted) = 2
  /\ sse.emitted[1].content = << <<"\n">> >>
  /\ sse.parsed = sse.emitted

====
